---- MODULE Spec2Model ----
(***************************************************************************)
(* A model of coffea's processor/executor.py: chunk planning               *)
(* (FileMeta.chunks, _chunk_generator), the executors, the retry/skip      *)
(* wrapper (_work_function) and the orchestrator (run_uproot_job).         *)
(*                                                                         *)
(* Each component has its own specification over the shared variables:     *)
(*   SpecPlan  - _chunk_generator pulled unit by unit                      *)
(***************************************************************************)
EXTENDS Integers, Sequences, FiniteSets, TLC

\* ------------------------------------------------------------------ bounds
\* total number of entries of the files of a file set
MaxEntries == 6
\* target chunksize
MaxChunksize == 4
\* files of a file set
MaxFiles == 2
\* resize hint sent to the chunk generator
MaxHint == 3
\* the retries option
MaxRetries == 2
\* items handed to an executor
MaxItems == 3
\* workers of the futures pool
MaxWorkers == 2
\* the treereduction option of dask_executor
MaxTree == 5
\* the maxchunks option of run_uproot_job
MaxMaxchunks == 2

\* KeyboardInterrupts delivered during one executor call
MaxSignals == 1
\* entries in all the files of a call of run_uproot_job or run_parquet_job
MaxJobEntries == 4
\* datasets of a servicex DataSource
MaxDatasets == 3

\* ------------------------------------------------------- program constants
\* run_uproot_job(chunksize=100000)
DefaultChunksize == 100000

\* ------------------------------------------------------------------ helpers
Min(a, b) == IF a <= b THEN a ELSE b

Max(a, b) == IF a >= b THEN a ELSE b

Last(s) == s[Len(s)]

\* Python 3 round(a / b) for integers a >= 0, b >= 1: to nearest, ties to even.
PyRoundHalfUp(a, b) == (2 * a + b) \div (2 * b)

PyRound(a, b) ==
    LET q == a \div b
        r == a % b
    IN  IF 2 * r < b THEN q
        ELSE IF 2 * r > b THEN q + 1
        ELSE IF q % 2 = 0 THEN q ELSE q + 1

\* math.ceil(a / n) for integers a >= 0, n >= 1
CeilDiv(a, n) == (a + n - 1) \div n

\* The sorted sequence of a finite set of integers.
RECURSIVE SortedSeq(_)
SortedSeq(S) ==
    IF S = {} THEN <<>>
    ELSE LET m == CHOOSE x \in S : \A y \in S : x <= y
         IN  <<m>> \o SortedSeq(S \ {m})

\* ------------------------------------------------------------- data model
_PROTECTED_NAMES ==
    {"dataset", "filename", "treename", "metadata", "entrystart", "entrystop",
     "fileuuid", "numentries", "uuid", "clusters"}

\* FileMeta.__init__ ; metadata None is the empty map.
FileMeta(dataset, filename, treename, metadata) ==
    [dataset |-> dataset, filename |-> filename, treename |-> treename,
     metadata |-> metadata]

NoMetadata == <<>>

\* FileMeta.populated(clusters)
populated(filemeta, clusters) ==
    /\ "numentries" \in DOMAIN filemeta.metadata
    /\ "uuid" \in DOMAIN filemeta.metadata
    /\ clusters => "clusters" \in DOMAIN filemeta.metadata

WorkItem(dataset, filename, treename, entrystart, entrystop, fileuuid, usermeta) ==
    [dataset |-> dataset, filename |-> filename, treename |-> treename,
     entrystart |-> entrystart, entrystop |-> entrystop, fileuuid |-> fileuuid,
     usermeta |-> usermeta]

\* WorkItem.__len__
WorkItemLen(item) == item.entrystop - item.entrystart

UserMetaUnfiltered(filemeta) == filemeta.metadata

\* FileMeta.chunks: user_meta, the metadata without the protected names
UserMeta(filemeta) ==
    [k \in (DOMAIN filemeta.metadata) \ _PROTECTED_NAMES |-> filemeta.metadata[k]]

MakeItem(filemeta, entrystart, entrystop) ==
    WorkItem(filemeta.dataset, filemeta.filename, filemeta.treename,
             entrystart, entrystop, filemeta.metadata["uuid"], UserMeta(filemeta))

\* ------------------------------------------------ FileMeta.chunks, even split
\* n = max(round(numentries / target_chunksize), 1)
EvenSplitN(numentries, target_chunksize) ==
    Max(PyRound(numentries, target_chunksize), 1)

\* actual_chunksize = math.ceil(numentries / n)
ActualChunksize(numentries, target_chunksize) ==
    CeilDiv(numentries, EvenSplitN(numentries, target_chunksize))

\* stop = min(numentries, start + actual_chunksize)
ChunkStopNoMin(numentries, start, actual_chunksize) == start + actual_chunksize

ChunkStop(numentries, start, actual_chunksize) ==
    Min(numentries, start + actual_chunksize)

\* --------------------------------------------- FileMeta.chunks, align_clusters
\* chunks = [0]; for c in clusters: if c >= chunks[-1] + target: chunks.append(c)
RECURSIVE AlignWalk(_, _, _, _)
AlignWalk(clusters, i, chunks, target_chunksize) ==
    IF i > Len(clusters) THEN chunks
    ELSE IF clusters[i] >= Last(chunks) + target_chunksize
         THEN AlignWalk(clusters, i + 1, Append(chunks, clusters[i]), target_chunksize)
         ELSE AlignWalk(clusters, i + 1, chunks, target_chunksize)

\* if clusters[-1] != chunks[-1]: chunks.append(clusters[-1])
AlignBoundariesNoTail(clusters, target_chunksize) ==
    AlignWalk(clusters, 1, <<0>>, target_chunksize)

AlignBoundaries(clusters, target_chunksize) ==
    LET chunks == AlignWalk(clusters, 1, <<0>>, target_chunksize)
    IN  IF Last(clusters) # Last(chunks) THEN Append(chunks, Last(clusters))
        ELSE chunks

\* ------------------------------------------------------------------- state
VARIABLES
    fileset,            \* list of FileMeta handed to _chunk_generator
    chunksize,          \* target chunksize
    align_clusters,
    dynamic_chunksize,
    gen,                \* frame of the suspended chunk generator
    emitted,            \* WorkItems yielded so far, in emission order
    lasthint,           \* value sent in the pull that yielded Last(emitted), 0 = None
    hinted,             \* whether a resize hint other than None was ever sent
    \* _work_function
    retries,
    skipbadfiles,
    use_dataframes,
    retry_count,
    out,                \* the local variable "out": unbound, None or a result
    wpc,                \* "loop", "returned" or "raised"
    wresult,            \* what the call returned or raised
    attempts,           \* outcome of every attempt made, in order
    warned,             \* warnings emitted, in order
    \* _get_metadata
    mretry_count,
    mpc,                \* "loop", "returned" or "raised"
    mresult,            \* what the call returned or raised
    mattempts,          \* outcome of every attempt made, in order
    mwarned,            \* warnings emitted, in order
    \* the executors
    xargs,              \* the call: executor, items, seed accumulator, options
    xpc,                \* where the executor call is
    accumulator,        \* the accumulator being merged into
    futs,               \* state and result of every submitted operation
    futures,            \* _futures_handler: operations not yet seen done
    done,               \* _futures_handler: operations done, not yet yielded
    pos,                \* iterative_executor: next item of the map
    work,               \* dask_executor: the current list of task results
    ncalls,             \* how many times function was called on each item
    hlog,               \* _futures_handler: what ended or interrupted it, in order
    yielded,            \* operations whose result the handler yielded, in order
    \* run_uproot_job
    jinput,             \* the fileset argument: the datasets, in order, with their files
    disk,               \* what opening each file finds: numentries, clusters
    metadata_cache,
    maxchunks,
    jexecutor,          \* the executor argument
    jpc,                \* the stage of run_uproot_job
    jidx,               \* _preprocess_fileset, maxchunks set: the file the loop is at
    fetched,            \* files whose metadata was fetched, in order
    jresult,            \* what run_uproot_job returned or raised
    jformat,            \* "root" (run_uproot_job) or "parquet" (run_parquet_job)
    written,            \* the writes into metadata_cache, in order: the file, the
                        \* fetches made and the units planned by then
    \* servicex DataSource
    stream              \* the frame of stream_result_files / stream_result_file_urls

planVars == <<fileset, chunksize, align_clusters, dynamic_chunksize, gen, emitted,
              lasthint, hinted>>

fetchVars == <<mretry_count, mpc, mresult, mattempts, mwarned>>

workVars == <<retries, skipbadfiles, use_dataframes, retry_count, out, wpc, wresult,
              attempts, warned, fetchVars>>

execVars == <<xargs, xpc, accumulator, futs, futures, done, pos, work, ncalls, yielded,
              hlog>>

jobVars == <<jinput, disk, metadata_cache, maxchunks, jexecutor, jpc, jidx, fetched,
             jresult, jformat, written, stream>>

vars == <<planVars, workVars, execVars, jobVars>>

\* The variables of a component that a specification does not exercise.
Unbound == [bound |-> FALSE, none |-> FALSE, attempt |-> 0]

NoResult == [kind |-> "none", exc |-> "", trace |-> FALSE, attempt |-> 0, out |-> Unbound]

PlanIdle ==
    /\ fileset = <<>> /\ chunksize = 1
    /\ align_clusters = FALSE /\ dynamic_chunksize = FALSE
    /\ gen = [pc |-> "idle", file |-> 0, start |-> 0, stop |-> 0,
              actual_chunksize |-> 0, k |-> 0]
    /\ emitted = <<>> /\ lasthint = 0 /\ hinted = FALSE

\* An accumulator value or None. The values are lists (merged by
\* concatenation) or one-element lists holding a sum (merged by addition).
None == [none |-> TRUE, val |-> <<>>]

Some(v) == [none |-> FALSE, val |-> v]

ExecIdle ==
    /\ xargs = [executor |-> "none"] /\ xpc = "idle" /\ accumulator = None
    /\ futs = <<>> /\ futures = {} /\ done = {} /\ pos = 0 /\ work = <<>>
    /\ ncalls = <<>> /\ yielded = <<>> /\ hlog = <<>>

JobIdle ==
    /\ jinput = <<>> /\ disk = <<>> /\ metadata_cache = <<>> /\ maxchunks = 0
    /\ jexecutor = "none" /\ jpc = "idle" /\ jidx = 0 /\ fetched = <<>>
    /\ jresult = [kind |-> "none"]
    /\ jformat = "none"
    /\ written = <<>>
    /\ stream = [pc |-> "idle"]

NoFetched == [kind |-> "none", exc |-> "", value |-> "none"]

FetchIdle ==
    /\ mretry_count = 0 /\ mpc = "idle" /\ mresult = NoFetched
    /\ mattempts = <<>> /\ mwarned = <<>>

WorkIdle ==
    /\ retries = 0 /\ skipbadfiles = FALSE /\ use_dataframes = FALSE
    /\ retry_count = 0 /\ out = Unbound /\ wpc = "idle" /\ wresult = NoResult
    /\ attempts = <<>> /\ warned = <<>>
    /\ FetchIdle

TreeName == "Events"

FileUuid(filename) == <<"uuid", filename>>

NumEntries(filemeta) == filemeta.metadata["numentries"]

\* The cluster lists tree.common_entry_offsets() can return for a tree of E
\* entries: strictly increasing, first 0, last E.
ClusterLists(E) == {SortedSeq({0, E} \cup S) : S \in SUBSET (1 .. E - 1)}

\* Metadata as _get_metadata records it (numentries, uuid, clusters if aligned).
PopulatedMetadata(filename, E, withClusters) ==
    IF withClusters
    THEN {[numentries |-> E, uuid |-> FileUuid(filename), clusters |-> c] :
             c \in ClusterLists(E)}
    ELSE {[numentries |-> E, uuid |-> FileUuid(filename)]}

\* The populated file sets of exactly n files (file i is named i) holding at
\* most budget entries in all.
RECURSIVE FilesetsOf(_, _, _)
FilesetsOf(n, budget, withClusters) ==
    IF n = 0 THEN {<<>>}
    ELSE UNION {UNION {{Append(fs, FileMeta("A", n, TreeName, md)) :
                           md \in PopulatedMetadata(n, E, withClusters)} :
                       fs \in FilesetsOf(n - 1, budget - E, withClusters)} :
                E \in 0 .. budget}

PopulatedFilesets(withClusters) ==
    UNION {FilesetsOf(n, MaxEntries, withClusters) : n \in 0 .. MaxFiles}

\* --------------------------------------------------------- _chunk_generator
\* The frame of the generator: pc "created" (not started), "suspended" (at a
\* yield of FileMeta.chunks of fileset[file], having yielded [start, stop)),
\* "exhausted" (StopIteration) or "raised" (RuntimeError of FileMeta.chunks).
Frame(pc, file, start, stop, actual_chunksize, k) ==
    [pc |-> pc, file |-> file, start |-> start, stop |-> stop,
     actual_chunksize |-> actual_chunksize, k |-> k]

Created == Frame("created", 0, 0, 0, 0, 0)

Exhausted == Frame("exhausted", 0, 0, 0, 0, 0)

Raised == Frame("raised", 0, 0, 0, 0, 0)

\* _chunk_generator, maxchunks None: "yield from filemeta.chunks(...)" for the
\* files from f on, run to the first yield. FileMeta.chunks computes the
\* boundaries (aligned) or actual_chunksize (even split) when it is entered.
RECURSIVE EnterFile(_)
EnterFile(f) ==
    IF f > Len(fileset) THEN Exhausted
    ELSE IF align_clusters /\ dynamic_chunksize THEN Raised
    ELSE IF ~populated(fileset[f], align_clusters) THEN Raised
    ELSE IF align_clusters
    THEN LET chunks == AlignBoundaries(fileset[f].metadata["clusters"], chunksize)
         IN  IF Len(chunks) >= 2
             THEN Frame("suspended", f, chunks[1], chunks[2], 0, 1)
             ELSE EnterFile(f + 1)
    ELSE LET numentries == NumEntries(fileset[f])
             actual_chunksize == ActualChunksize(numentries, chunksize)
         IN  IF 0 < numentries
             THEN Frame("suspended", f, 0,
                        ChunkStop(numentries, 0, actual_chunksize),
                        actual_chunksize, 0)
             ELSE EnterFile(f + 1)

\* The width the even-split loop uses after a yield returned next_chunksize:
\* "if dynamic_chunksize and next_chunksize: actual_chunksize = next_chunksize"
ResizedIgnoringHint(actual_chunksize, next_chunksize) == actual_chunksize

Resized(actual_chunksize, next_chunksize) ==
    IF dynamic_chunksize /\ next_chunksize # 0 THEN next_chunksize
    ELSE actual_chunksize

\* The generator resumed from its yield with send(next_chunksize), 0 for None.
Resume(next_chunksize) ==
    IF align_clusters
    THEN LET chunks == AlignBoundaries(fileset[gen.file].metadata["clusters"], chunksize)
             k == gen.k + 1
         IN  IF k < Len(chunks)
             THEN Frame("suspended", gen.file, chunks[k], chunks[k + 1], 0, k)
             ELSE EnterFile(gen.file + 1)
    ELSE LET numentries == NumEntries(fileset[gen.file])
             start == gen.stop
             actual_chunksize == Resized(gen.actual_chunksize, next_chunksize)
         IN  IF start < numentries
             THEN Frame("suspended", gen.file, start,
                        ChunkStop(numentries, start, actual_chunksize),
                        actual_chunksize, 0)
             ELSE EnterFile(gen.file + 1)

\* One next()/send(hint) on the generator.
Pull(hint) ==
    /\ gen.pc \in {"created", "suspended"}
    /\ hint # 0 => (gen.pc = "suspended" /\ dynamic_chunksize)
    /\ gen' = IF gen.pc = "created" THEN EnterFile(1) ELSE Resume(hint)
    /\ IF gen'.pc = "suspended"
       THEN /\ emitted' = Append(emitted,
                              MakeItem(fileset[gen'.file], gen'.start, gen'.stop))
            /\ lasthint' = hint
       ELSE UNCHANGED <<emitted, lasthint>>
    /\ hinted' = (hinted \/ hint # 0)
    /\ UNCHANGED <<fileset, chunksize, align_clusters, dynamic_chunksize>>
    /\ UNCHANGED <<workVars, execVars, jobVars>>

PlanInit ==
    /\ WorkIdle /\ ExecIdle /\ JobIdle
    /\ align_clusters \in BOOLEAN
    /\ dynamic_chunksize \in BOOLEAN
    /\ chunksize \in 1 .. MaxChunksize
    /\ fileset \in PopulatedFilesets(align_clusters)
    /\ gen = Created
    /\ emitted = <<>>
    /\ lasthint = 0
    /\ hinted = FALSE

PlanNext == \E hint \in 0 .. MaxHint : Pull(hint)

SpecPlan == PlanInit /\ [][PlanNext]_vars

\* The consumer of the generator keeps pulling (with or without a hint) until
\* the generator is exhausted.
SpecPull == PlanInit /\ [][PlanNext]_vars /\ WF_vars(PlanNext)

\* ------------------------------------------------------ chunk planner claims
Range(s) == {s[i] : i \in 1 .. Len(s)}

\* The WorkItems emitted for file f, in emission order.
UnitsOf(f) == SelectSeq(emitted, LAMBDA u : u.filename = f)

\* units start at 0, are non-empty and contiguous, and stay within [0, E)
TilesPrefix(units, E) ==
    /\ units # <<>> => units[1].entrystart = 0
    /\ \A i \in 1 .. Len(units) :
          /\ units[i].entrystart < units[i].entrystop
          /\ units[i].entrystop <= E
          /\ i > 1 => units[i].entrystart = units[i - 1].entrystop

\* units tile [0, E) exactly
Tiles(units, E) ==
    /\ TilesPrefix(units, E)
    /\ IF E = 0 THEN units = <<>> ELSE units # <<>> /\ Last(units).entrystop = E

\* The generator has left file f behind.
FileDone(f) ==
    \/ gen.pc = "exhausted"
    \/ gen.pc = "suspended" /\ gen.file > f

\* Units are emitted file by file, in the order of the file set.
InFileOrder ==
    \A i \in 1 .. Len(emitted) - 1 : emitted[i].filename <= emitted[i + 1].filename

\* C1: in even-split mode with no resize hint ever supplied, the WorkItems of
\* every file start at 0, are contiguous and non-overlapping, end at
\* numentries E once the file is done, and each is at most
\* ceil(E / max(round(E / T), 1)) entries long.
C1_EvenSplitTiles ==
    (~align_clusters /\ ~hinted) =>
        /\ InFileOrder
        /\ \A f \in 1 .. Len(fileset) :
              LET E == NumEntries(fileset[f])
                  units == UnitsOf(f)
              IN  /\ TilesPrefix(units, E)
                  /\ FileDone(f) => Tiles(units, E)
                  /\ \A i \in 1 .. Len(units) :
                        WorkItemLen(units[i])
                            <= CeilDiv(E, Max(PyRound(E, chunksize), 1))

\* C1 witness: a finished even-split plan of two files, one of them cut into
\* several units of which the last is shorter (numentries not a multiple).
C1_Witness ==
    /\ ~align_clusters /\ ~hinted /\ gen.pc = "exhausted"
    /\ Len(fileset) = 2 /\ UnitsOf(1) # <<>>
    /\ Len(UnitsOf(2)) >= 2
    /\ WorkItemLen(Last(UnitsOf(2))) < WorkItemLen(UnitsOf(2)[1])

\* C3: in cluster-aligned mode every entrystart and entrystop is a member of
\* the file's clusters list and the last WorkItem of a file stops at numentries.
C3_AlignedBoundaries ==
    (align_clusters /\ ~dynamic_chunksize) =>
        \A f \in 1 .. Len(fileset) :
            LET units == UnitsOf(f)
                clusters == fileset[f].metadata["clusters"]
            IN  /\ \A i \in 1 .. Len(units) :
                      /\ units[i].entrystart \in Range(clusters)
                      /\ units[i].entrystop \in Range(clusters)
                /\ (FileDone(f) /\ units # <<>>) =>
                      Last(units).entrystop = NumEntries(fileset[f])

\* C3 witness: an aligned plan that skipped a cluster boundary and whose last
\* unit is shorter than the target (the tail appended after the walk).
C3_Witness ==
    /\ align_clusters /\ ~dynamic_chunksize /\ gen.pc = "exhausted"
    /\ \E f \in 1 .. Len(fileset) :
          LET units == UnitsOf(f)
          IN  /\ Len(units) >= 2
              /\ WorkItemLen(Last(units)) < chunksize
              /\ \E c \in Range(fileset[f].metadata["clusters"]) :
                    units[1].entrystart < c /\ c < units[1].entrystop

\* The width of the last emitted unit follows from the hint sent before it
\* (or, with no hint, from the width of the unit before it), cut at the end of
\* its file.
LastWidthFollowsHint ==
    LET u == emitted[Len(emitted)]
        p == emitted[Len(emitted) - 1]
        E == NumEntries(fileset[u.filename])
    IN  WorkItemLen(u) =
            Min(IF lasthint # 0 THEN lasthint ELSE WorkItemLen(p), E - u.entrystart)

\* C4 as stated: in dynamic mode every unit pulled from _chunk_generator after
\* the first has the width supplied after the unit before it, or that unit's
\* width when none was supplied.
C4_Original ==
    (dynamic_chunksize /\ ~align_clusters /\ Len(emitted) >= 2) => LastWidthFollowsHint

\* C4 amended: the hint decides the width of the next unit of the same file,
\* absent a hint the width stays; the first unit of every file has the
\* even-split width computed from the static chunksize, whatever was sent
\* after the last unit of the file before. Units already emitted never change.
C4_LastUnit ==
    (dynamic_chunksize /\ ~align_clusters /\ emitted # <<>>) =>
        LET u == emitted[Len(emitted)]
            E == NumEntries(fileset[u.filename])
        IN  IF Len(emitted) >= 2 /\ emitted[Len(emitted) - 1].filename = u.filename
            THEN LastWidthFollowsHint
            ELSE /\ u.entrystart = 0
                 /\ WorkItemLen(u) = Min(ActualChunksize(E, chunksize), E)

C4_DynamicResize ==
    [][/\ Len(emitted') >= Len(emitted)
       /\ SubSeq(emitted', 1, Len(emitted)) = emitted
       /\ C4_LastUnit']_vars

\* C4 witness: a hint changed the width of the next unit of the same file.
C4_Witness ==
    /\ dynamic_chunksize /\ ~align_clusters /\ Len(emitted) >= 3
    /\ LET u == emitted[Len(emitted)]
           p == emitted[Len(emitted) - 1]
       IN  /\ p.filename = u.filename
           /\ lasthint # 0
           /\ WorkItemLen(u) = lasthint
           /\ WorkItemLen(u) # WorkItemLen(p)
           /\ WorkItemLen(p) = WorkItemLen(emitted[Len(emitted) - 2])

\* The number of entries of all the files of the file set.
RECURSIVE TotalEntries(_)
TotalEntries(fs) ==
    IF fs = <<>> THEN 0 ELSE NumEntries(Head(fs)) + TotalEntries(Tail(fs))

\* Whatever hints were sent, the units emitted so far are in file order, those
\* of each file contiguous from 0 and non-empty, those of a finished file
\* tile it, and there are no more units than entries.
DynamicTiling ==
    (dynamic_chunksize /\ ~align_clusters) =>
        /\ InFileOrder
        /\ Len(emitted) <= TotalEntries(fileset)
        /\ \A f \in 1 .. Len(fileset) :
              /\ TilesPrefix(UnitsOf(f), NumEntries(fileset[f]))
              /\ FileDone(f) => Tiles(UnitsOf(f), NumEntries(fileset[f]))

\* C39: in dynamic-chunksize mode, for every sequence of resize hints (none,
\* or a positive integer) sent to the generator, the WorkItems of every file
\* tile [0, numentries) with no gap, overlap or empty unit, and the generator
\* is exhausted after finitely many units.
C39_HintsKeepTiling ==
    /\ []DynamicTiling
    /\ (dynamic_chunksize /\ ~align_clusters) => <>(gen.pc = "exhausted")

\* C39 witness: a finished dynamic plan in which hints changed the width
\* twice within one file, whose units tile it.
C39_Witness ==
    /\ dynamic_chunksize /\ ~align_clusters /\ hinted /\ gen.pc = "exhausted"
    /\ \E f \in 1 .. Len(fileset) :
          /\ Len(UnitsOf(f)) >= 3
          /\ WorkItemLen(UnitsOf(f)[1]) # WorkItemLen(UnitsOf(f)[2])
          /\ WorkItemLen(UnitsOf(f)[2]) < WorkItemLen(UnitsOf(f)[3])
          /\ Last(UnitsOf(f)).entrystop = NumEntries(fileset[f])

\* ----------------------------------------------------------- _work_function
\* What one attempt of the unit meets: where (opening the file and building
\* the events, inside processor.process, or after process returned, while
\* the metrics are collected) and what (nothing, process returning None, an
\* OSError, an OSError whose text has "Auth failed", another Exception whose
\* class can be built from one message string, or one whose class cannot).
Stages == {"open", "process", "post"}

FailureKinds == {"oserror", "auth", "other", "custom"}

Outcomes ==
    {[stage |-> "done", kind |-> "ok"], [stage |-> "process", kind |-> "none"]}
        \cup [stage : Stages, kind : FailureKinds]

IsFailure(o) == o.kind # "ok"

\* "out" after the try body of this attempt: line 783 binds it when
\* process() returns (a result, or None).
OutAfter(o, n) ==
    IF o.kind = "ok" \/ o.stage = "post" THEN [bound |-> TRUE, none |-> FALSE, attempt |-> n]
    ELSE IF o.kind = "none" THEN [bound |-> TRUE, none |-> TRUE, attempt |-> 0]
    ELSE out

Returned(o) == [kind |-> "returned", exc |-> "", trace |-> FALSE,
                attempt |-> Len(attempts) + 1, out |-> o]

\* An exception leaving _work_function; trace: the text "Failed processing
\* file: <filename> (<entrystart>-<entrystop>)" was appended (lines 784-788).
RaisedExcNoTrace(exc, o) == [kind |-> "raised", exc |-> exc, trace |-> FALSE,
                             attempt |-> Len(attempts) + 1, out |-> Unbound]

RaisedExc(exc, o) == [kind |-> "raised", exc |-> exc,
                      trace |-> o.stage = "process" /\ o.kind \notin {"none", "custom"},
                      attempt |-> Len(attempts) + 1, out |-> Unbound]

\* The class of the exception that reaches "except Exception" (line 831):
\* "raise type(e)(str(e) + file_trace)" keeps the class when it can be built
\* from the message alone and raises TypeError otherwise; "raise ValueError"
\* for a process() that returned None.
PropagatedKind(o) ==
    IF o.kind = "none" THEN "ValueError"
    ELSE IF o.kind = "other" THEN "Exception"
    ELSE IF o.stage = "process" THEN "TypeError"
    ELSE "Custom"

PropagatesUnlessSkipped(kind) == ~skipbadfiles

\* "if not skipbadfiles or "Auth failed" in str(e): raise e"
Propagates(kind) == ~skipbadfiles \/ kind = "auth"

WhileConditionOneMore(count) == count <= retries + 1

\* "while retry_count <= retries"
WhileCondition(count) == count <= retries

\* The text of the warning of lines 819-828.
BadFileWarning ==
    IF retries # 0 /\ retry_count + 1 < retries THEN "Bad file source. Will retry."
    ELSE "Bad file source. Skipping."

\* "except OSError" with skipbadfiles and no "Auth failed": after the warning,
\* "if not use_dataframes: return {"out": out}"; reading an unbound local
\* raises UnboundLocalError out of the handler.
SkipReturn(o) == ~use_dataframes

\* "retry_count += 1" and the test of "while retry_count <= retries"; falling
\* off the loop returns None.
NextAttempt(o) ==
    /\ retry_count' = retry_count + 1
    /\ out' = OutAfter(o, Len(attempts) + 1)
    /\ IF WhileCondition(retry_count + 1)
       THEN wpc' = "loop" /\ wresult' = wresult
       ELSE wpc' = "returned" /\ wresult' = [Returned(Unbound) EXCEPT !.kind = "returned None"]

Finish(pc, result, o) ==
    /\ wpc' = pc
    /\ wresult' = result
    /\ out' = OutAfter(o, Len(attempts) + 1)
    /\ retry_count' = retry_count

\* One pass through the body of "while retry_count <= retries".
Attempt(o) ==
    /\ wpc = "loop"
    /\ WhileCondition(retry_count)
    /\ attempts' = Append(attempts, o)
    /\ UNCHANGED <<retries, skipbadfiles, use_dataframes, fetchVars>>
    /\ UNCHANGED <<planVars, execVars, jobVars>>
    /\ CASE o.kind = "ok" ->
              /\ Finish("returned", Returned(OutAfter(o, Len(attempts) + 1)), o)
              /\ warned' = warned
         [] o.kind \in {"oserror", "auth"} ->
              IF Propagates(o.kind)
              THEN /\ Finish("raised", RaisedExc("OSError", o), o)
                   /\ warned' = warned
              ELSE /\ warned' = Append(warned, BadFileWarning)
                   /\ IF SkipReturn(o)
                      THEN IF OutAfter(o, Len(attempts) + 1).bound
                           THEN Finish("returned", Returned(OutAfter(o, Len(attempts) + 1)), o)
                           ELSE Finish("raised", RaisedExc("UnboundLocalError",
                                                 [stage |-> "handler", kind |-> "unbound"]), o)
                      ELSE NextAttempt(o)
         [] OTHER ->
              IF retries = retry_count
              THEN /\ Finish("raised", RaisedExc(PropagatedKind(o), o), o)
                   /\ warned' = warned
              ELSE /\ warned' = Append(warned, "Will retry.")
                   /\ NextAttempt(o)

\* -------------------------------------------------------------- _get_metadata
\* What one attempt of the fetch meets while it opens the file and reads the
\* tree: nothing, an OSError, an OSError with "Auth failed", another Exception.
FetchOutcomes == {"ok", "oserror", "auth", "other"}

\* The text of the warning of lines 901-910.
FetchBadFileWarning ==
    IF retries # 0 /\ mretry_count + 1 < retries THEN "Bad file source. Will retry."
    ELSE "Bad file source. Skipping."

\* warnings.warn, "retry_count += 1" and the test of "while retry_count <=
\* retries"; falling off the loop returns the empty set_accumulator.
FetchRetry(w) ==
    /\ mretry_count' = mretry_count + 1
    /\ mwarned' = Append(mwarned, w)
    /\ IF WhileCondition(mretry_count + 1)
       THEN mpc' = "loop" /\ mresult' = mresult
       ELSE /\ mpc' = "returned"
            /\ mresult' = [kind |-> "returned", exc |-> "", value |-> "empty"]

FetchFinish(pc, result) ==
    /\ mpc' = pc
    /\ mresult' = result
    /\ UNCHANGED <<mretry_count, mwarned>>

\* One pass through the body of "while retry_count <= retries" of _get_metadata.
\* The fetch is followed once the call of _work_function has ended, and its
\* attempts first meet what the attempts of that call met.
FetchAttempt(kind) ==
    /\ mpc = "loop"
    /\ WhileCondition(mretry_count)
    /\ wpc # "loop"
    /\ Len(mattempts) < Len(attempts) => kind = attempts[Len(mattempts) + 1].kind
    /\ mattempts' = Append(mattempts, kind)
    /\ UNCHANGED <<retries, skipbadfiles, use_dataframes, retry_count, out, wpc, wresult,
                   attempts, warned>>
    /\ UNCHANGED <<planVars, execVars, jobVars>>
    /\ CASE kind = "ok" ->
              FetchFinish("returned", [kind |-> "returned", exc |-> "", value |-> "filemeta"])
         [] kind \in {"oserror", "auth"} ->
              IF Propagates(kind)
              THEN FetchFinish("raised", [kind |-> "raised", exc |-> "OSError", value |-> "none"])
              ELSE FetchRetry(FetchBadFileWarning)
         [] OTHER ->
              IF retries = mretry_count
              THEN FetchFinish("raised", [kind |-> "raised", exc |-> "Exception", value |-> "none"])
              ELSE FetchRetry("Will retry.")

WorkInit ==
    /\ PlanIdle /\ ExecIdle /\ JobIdle
    /\ mretry_count = 0 /\ mpc = "loop" /\ mresult = NoFetched
    /\ mattempts = <<>> /\ mwarned = <<>>
    /\ retries \in 0 .. MaxRetries
    /\ skipbadfiles \in BOOLEAN
    /\ use_dataframes \in BOOLEAN
    /\ retry_count = 0
    /\ out = Unbound
    /\ wpc = "loop"
    /\ wresult = NoResult
    /\ attempts = <<>>
    /\ warned = <<>>

WorkNext ==
    \/ \E o \in Outcomes : Attempt(o)
    \/ \E kind \in FetchOutcomes : FetchAttempt(kind)

SpecWork == WorkInit /\ [][WorkNext]_vars

\* ------------------------------------------------------ retry wrapper claims
AllAttempts(P(_)) == \A i \in 1 .. Len(attempts) : P(attempts[i])

NonAuthFailure(o) == IsFailure(o) /\ o.kind # "auth"

NonAuthOSError(o) == o.kind = "oserror"

\* C9: a unit that fails k < retries times (no authentication failure) and
\* then succeeds returns the result of attempt k + 1: the wrapper does not
\* end on one of the first k failures, and a successful attempt returns its
\* own result.
C9_RetryThenSucceed ==
    /\ (attempts # <<>> /\ AllAttempts(NonAuthFailure) /\ Len(attempts) < retries)
          => wpc = "loop"
    /\ (attempts # <<>> /\ Last(attempts).kind = "ok")
          => /\ wpc = "returned"
             /\ wresult.out = [bound |-> TRUE, none |-> FALSE, attempt |-> Len(attempts)]

\* C10: with skipbadfiles a unit whose every attempt fails with an OSError
\* that is no authentication failure never lets an exception out: it ends
\* with a warning and a placeholder result.
C10_SkipBadFile ==
    (skipbadfiles /\ attempts # <<>> /\ AllAttempts(NonAuthOSError)) =>
        /\ wpc # "raised"
        /\ wpc = "returned" => warned # <<>>

\* C11: with skipbadfiles a unit that always fails with an OSError that is no
\* authentication failure is attempted again while retries remain, 1 + retries
\* times in all, and is then skipped with a placeholder result.
C11_SkippedAfterAllAttempts ==
    (skipbadfiles /\ attempts # <<>> /\ AllAttempts(NonAuthOSError)) =>
        IF Len(attempts) < 1 + retries THEN wpc = "loop" ELSE wpc = "returned"

IsOSError(kind) == kind \in {"oserror", "auth"}

NotIOFailure(o) == o.kind \in {"other", "custom"}

AnyButOSError(o) == o.kind \in {"other", "custom", "none"}

\* C13 as stated: a unit whose attempts all fail with failures that are not
\* OSErrors is retried while attempts remain, and the final attempt raises a
\* failure of the kind it met, with the file and entry range appended,
\* wherever in the unit the failure arose.
C13_Original ==
    (attempts # <<>> /\ AllAttempts(NotIOFailure)) =>
        IF Len(attempts) < 1 + retries THEN wpc = "loop"
        ELSE /\ wpc = "raised"
             /\ wresult.trace
             /\ wresult.exc = IF Last(attempts).kind = "other" THEN "Exception" ELSE "Custom"

\* C13 amended: such a unit is retried while attempts remain and the final
\* attempt raises; the failure keeps its kind and carries the file and entry
\* range exactly when it arose inside process() and its class can be built
\* from the message alone; a failure of process() whose class cannot raises
\* TypeError, a failure elsewhere is raised as it is, both without the text.
C13_RetriedThenRaised ==
    (attempts # <<>> /\ AllAttempts(AnyButOSError)) =>
        IF Len(attempts) < 1 + retries THEN wpc = "loop"
        ELSE /\ wpc = "raised"
             /\ wresult.attempt = 1 + retries
             /\ wresult.trace = (Last(attempts) = [stage |-> "process", kind |-> "other"])
             /\ wresult.exc =
                    CASE Last(attempts).kind = "other" -> "Exception"
                      [] Last(attempts).kind = "none" -> "ValueError"
                      [] Last(attempts) = [stage |-> "process", kind |-> "custom"] -> "TypeError"
                      [] OTHER -> "Custom"

\* C13 witness: a failure on opening the file was retried, and the failure
\* of process() on the final attempt was raised with the file text.
C13_Witness ==
    /\ retries = 1 /\ wpc = "raised" /\ wresult.trace
    /\ attempts = <<[stage |-> "open", kind |-> "other"],
                    [stage |-> "process", kind |-> "other"]>>

KindOf(o) == o.kind

Kinds(seq) == [i \in 1 .. Len(seq) |-> KindOf(seq[i])]

IsPrefix(a, b) == Len(a) <= Len(b) /\ SubSeq(b, 1, Len(a)) = a

\* How a finished call ended: a result, a skipped placeholder, a failure.
WorkEnded ==
    IF wpc = "raised" THEN "failure"
    ELSE IF Last(attempts).kind = "ok" THEN "result"
    ELSE "skipped"

FetchEnded ==
    IF mpc = "raised" THEN "failure"
    ELSE IF mresult.value = "filemeta" THEN "result"
    ELSE "skipped"

\* C15: for the same retries, skipbadfiles and sequence of attempt outcomes,
\* _get_metadata and _work_function make the same number of attempts and end
\* the same way (the outcomes one of them met are the first of those the
\* other met, and both have ended).
C15_SameRetryAndSkip ==
    (/\ wpc \in {"returned", "raised"} /\ mpc \in {"returned", "raised"}
     /\ \A i \in 1 .. Len(attempts) : attempts[i].kind \in FetchOutcomes
     /\ IsPrefix(Kinds(attempts), mattempts) \/ IsPrefix(mattempts, Kinds(attempts)))
        => /\ Len(attempts) = Len(mattempts)
           /\ WorkEnded = FetchEnded

\* ---------------------------------------------------------------- executors
NoLevel == 0 - 1

\* The function handed to the executor: the result of item i is the list [i]
\* (list accumulators) or the weight 2^(i-1) (sum accumulators), so that the
\* merged value tells which results went in, and in which order.
Function(item) ==
    Some(IF xargs.acctype = "list" THEN <<item>> ELSE <<2 ^ (item - 1)>>)

\* accumulator.add / iadd of two values that are not None
Merge(a, b) == IF xargs.acctype = "list" THEN a \o b ELSE <<a[1] + b[1]>>

\* accumulate(): one step of its loop over the items that are not None
AccumulateOne(accum, x) ==
    IF x.none THEN accum
    ELSE IF accum.none THEN x
    ELSE Some(Merge(accum.val, x.val))

\* accumulate(items, accum)
RECURSIVE Accumulate(_, _)
Accumulate(xs, accum) ==
    IF xs = <<>> THEN accum
    ELSE Accumulate(Tail(xs), AccumulateOne(accum, Head(xs)))

\* _compress: the pickled and lz4-compressed bytes of item
_compress(item, clevel) == [lz4 |-> clevel, pickled |-> item]

\* _decompress
_decompress(payload) == payload.pickled

\* _compression_wrapper.__call__, applied when compression is not None
WrappedFunction(item) ==
    IF xargs.clevel = NoLevel THEN Function(item)
    ELSE _compress(Function(item), xargs.clevel)

\* "gen if clevel is None else map(_decompress, gen)"
Consumed(result) ==
    IF xargs.clevel = NoLevel THEN result ELSE _decompress(result)

\* "if len(items) == 0: return accumulator", first statement of each executor
EmptyItemsIgnored(items) == FALSE

EmptyItems(items) == Len(items) = 0

ExecReturn(value) ==
    /\ xpc' = "returned"
    /\ accumulator' = value

\* ------------------------------------------------------- iterative_executor
\* for item in items: accumulator += function(item), as a pure fold
RECURSIVE IterativeFold(_, _)
IterativeFold(items, accum) ==
    IF items = <<>> THEN accum
    ELSE IterativeFold(Tail(items), AccumulateOne(accum, Function(Head(items))))

IterativeStart ==
    /\ xpc = "start" /\ xargs.executor = "iterative"
    /\ IF EmptyItems(xargs.items)
       THEN ExecReturn(xargs.seed) /\ pos' = pos
       ELSE xpc' = "iter" /\ pos' = 1 /\ accumulator' = xargs.seed
    /\ UNCHANGED <<xargs, futs, futures, done, work, ncalls, yielded, hlog>>
    /\ UNCHANGED <<planVars, workVars, jobVars>>

\* accumulate() pulls the next item through map(function, gen) and merges it;
\* when the map is exhausted it returns the accumulator.
IterativeStep ==
    /\ xpc = "iter"
    /\ IF pos <= Len(xargs.items)
       THEN /\ ncalls' = [ncalls EXCEPT ![pos] = @ + 1]
            /\ accumulator' = AccumulateOne(accumulator, Function(xargs.items[pos]))
            /\ pos' = pos + 1
            /\ xpc' = xpc
       ELSE ExecReturn(accumulator) /\ UNCHANGED <<pos, ncalls>>
    /\ UNCHANGED <<xargs, futs, futures, done, work, yielded, hlog>>
    /\ UNCHANGED <<planVars, workVars, jobVars>>

\* ------------------------------------- futures_executor and parsl_executor
\* {pool.submit(function, item) for item in items}: one operation per item
SubmittedOpsButLast(items) == 1 .. Len(items) - 1

SubmittedOps(items) == 1 .. Len(items)

Running == {op \in DOMAIN futs : futs[op].state = "running"}

\* The operations concurrent.futures.wait reports done: finished with a
\* result, finished with an exception, or cancelled.
Completed(ops) == {op \in ops : futs[op].state \in {"finished", "failed", "cancelled"}}

\* The operations not yet through: still queued or running.
Outstanding == {op \in DOMAIN futs : futs[op].state \in {"queued", "running"}}

CancelNothing(ops) == futs

\* _cancel(job) on every job of ops: job.cancel() cancels a queued operation
\* and leaves a running or completed one alone; parsl's AppFuture does not
\* implement it (NotImplementedError, ignored).
Cancel(ops) ==
    [op \in DOMAIN futs |->
        IF op \in ops
        THEN [futs[op] EXCEPT !.cancelreq = TRUE,
                              !.state = IF @ = "queued" /\ xargs.executor = "futures"
                                        THEN "cancelled" ELSE @]
        ELSE futs[op]]

\* The number of the wait that is about to return.
Round ==
    1 + (CHOOSE m \in {0} \cup {futs[op].round : op \in DOMAIN futs} :
            \A op \in DOMAIN futs : futs[op].round <= m)

\* The handler is through (its finally block ran) and the executor returns
\* or raises; "with pool(max_workers=workers) as poolinstance" first shuts
\* the pool down, which waits for the operations still running.
HandlerExitReturns(how, ops) == xpc' = "returned"

HandlerExit(how, ops) ==
    xpc' = IF /\ xargs.executor = "futures" /\ xargs.pool = "class"
              /\ \E op \in DOMAIN ops : ops[op].state \in {"queued", "running"}
           THEN "shutdown"
           ELSE how

FuturesStart ==
    /\ xpc = "start" /\ xargs.executor \in {"futures", "parsl"}
    /\ IF EmptyItems(xargs.items)
       THEN ExecReturn(xargs.seed) /\ UNCHANGED <<futs, futures>>
       ELSE /\ futs' = [op \in SubmittedOps(xargs.items) |->
                           [state |-> "queued", result |-> None, round |-> 0,
                            cancelreq |-> FALSE, active |-> {}]]
            /\ futures' = SubmittedOps(xargs.items)
            /\ accumulator' = xargs.seed
            /\ xpc' = IF SubmittedOps(xargs.items) = {} THEN "returned" ELSE "wait"
    /\ UNCHANGED <<xargs, done, pos, work, ncalls, yielded, hlog>>
    /\ UNCHANGED <<planVars, workVars, jobVars>>

\* A worker of the pool takes a queued operation and calls function on its item.
WorkerStart(op) ==
    /\ op \in DOMAIN futs /\ futs[op].state = "queued"
    /\ xargs.executor = "parsl" \/ Cardinality(Running) < xargs.workers
    /\ futs' = [futs EXCEPT ![op].state = "running", ![op].active = {1}]
    /\ ncalls' = [ncalls EXCEPT ![op] = @ + 1]
    /\ UNCHANGED <<xargs, xpc, accumulator, futures, done, pos, work, yielded, hlog>>
    /\ UNCHANGED <<planVars, workVars, jobVars>>

\* The call returns; the operation holds its result.
WorkerFinish(op) ==
    /\ op \in DOMAIN futs /\ futs[op].state = "running"
    /\ futs' = [futs EXCEPT ![op].state = "finished", ![op].active = {},
                            ![op].result = WrappedFunction(xargs.items[op])]
    /\ UNCHANGED <<xargs, xpc, accumulator, futures, done, pos, work, ncalls, yielded, hlog>>
    /\ UNCHANGED <<planVars, workVars, jobVars>>

\* The call raises; the operation holds the exception.
WorkerFail(op) ==
    /\ op \in DOMAIN futs /\ futs[op].state = "running"
    /\ xargs.faulty
    /\ futs' = [futs EXCEPT ![op].state = "failed", ![op].active = {}]
    /\ UNCHANGED <<xargs, xpc, accumulator, futures, done, pos, work, ncalls, yielded, hlog>>
    /\ UNCHANGED <<planVars, workVars, jobVars>>

\* The number of the latest attempt among those in progress.
LatestAttempt(active) == CHOOSE n \in active : \A m \in active : m <= n

AttemptsOverlapping(active) == active \cup {LatestAttempt(active) + 1}

\* _work_function: the attempts in progress once an attempt failed, its
\* exception was handled and "retry_count += 1" led back into the while loop.
AttemptsAfterRetry(active) == {LatestAttempt(active) + 1}

\* The attempt of a running call fails with an exception that is retried:
\* "except Exception" with retry_count < retries warns, and the loop of the
\* same call, in the same worker, makes the next attempt.
WorkerRetry(op) ==
    /\ op \in DOMAIN futs /\ futs[op].state = "running"
    /\ xargs.faulty
    /\ \A n \in futs[op].active : n <= xargs.retries
    /\ futs' = [futs EXCEPT ![op].active = AttemptsAfterRetry(@)]
    /\ UNCHANGED <<xargs, xpc, accumulator, futures, done, pos, work, ncalls, yielded, hlog>>
    /\ UNCHANGED <<planVars, workVars, jobVars>>

\* A pool made by the executor is shut down once nothing is running in it.
PoolShutdown ==
    /\ xpc = "shutdown"
    /\ Outstanding = {}
    /\ xpc' = IF Last(hlog) \in {"timeout", "interrupt"} THEN "returned" ELSE "raised"
    /\ UNCHANGED <<xargs, accumulator, futs, futures, done, pos, work, ncalls, yielded, hlog>>
    /\ UNCHANGED <<planVars, workVars, jobVars>>

Interrupts == Len(SelectSeq(hlog, LAMBDA e : e \in {"interrupt", "consumer interrupt"}))

WaitDoneKeepsPending == futures

\* "done, futures = concurrent.futures.wait(...)": the operations left pending
WaitDonePending == futures \ Completed(futures)

\* _futures_handler: "done, futures = concurrent.futures.wait(futures, ...,
\* return_when=FIRST_COMPLETED)" returning with at least one completion.
WaitDone ==
    /\ xpc = "wait"
    /\ Completed(futures) # {}
    /\ done' = Completed(futures)
    /\ futures' = WaitDonePending
    /\ futs' = [op \in DOMAIN futs |->
                   IF op \in Completed(futures) THEN [futs[op] EXCEPT !.round = Round]
                   ELSE futs[op]]
    /\ xpc' = "drain"
    /\ UNCHANGED <<xargs, accumulator, pos, work, ncalls, yielded, hlog>>
    /\ UNCHANGED <<planVars, workVars, jobVars>>

\* The wait ends after tailtimeout with nothing done: warning, break, and the
\* finally block cancels what is pending; the generator ends, accumulate()
\* returns and so does the executor.
WaitTimeout ==
    /\ xpc = "wait"
    /\ xargs.tailtimeout
    /\ Completed(futures) = {}
    /\ hlog' = Append(hlog, "timeout")
    /\ futs' = Cancel(futures)
    /\ futures' = {}
    /\ HandlerExit("returned", futs')
    /\ UNCHANGED <<xargs, accumulator, done, pos, work, ncalls, yielded>>
    /\ UNCHANGED <<planVars, workVars, jobVars>>

\* _futures_handler: "yield done.pop().result()", merged by the accumulate()
\* of the executor before the generator is resumed; a cancelled operation
\* raises CancelledError, which is passed over. When done and futures are
\* both empty the generator ends and the executor returns.
YieldOne(op) ==
    /\ xpc = "drain"
    /\ op \in done
    /\ futs[op].state \in {"finished", "cancelled"}
    /\ done' = done \ {op}
    /\ IF futs[op].state = "finished"
       THEN /\ accumulator' = AccumulateOne(accumulator, Consumed(futs[op].result))
            /\ yielded' = Append(yielded, op)
       ELSE UNCHANGED <<accumulator, yielded>>
    /\ IF done' # {} THEN xpc' = "drain"
       ELSE IF futures # {} THEN xpc' = "wait"
       ELSE HandlerExit("returned", futs)
    /\ UNCHANGED <<xargs, futs, futures, pos, work, ncalls, hlog>>
    /\ UNCHANGED <<planVars, workVars, jobVars>>

\* "done.pop().result()" raises the exception of a failed operation: it
\* leaves the loops, the finally block cancels what is pending, and the
\* exception leaves accumulate() and the executor; the frame of the
\* generator, with what it held in done, is gone.
YieldRaises(op) ==
    /\ xpc = "drain"
    /\ op \in done
    /\ futs[op].state = "failed"
    /\ done' = {}
    /\ hlog' = Append(hlog, "error")
    /\ futs' = Cancel(futures)
    /\ futures' = {}
    /\ HandlerExit("raised", futs')
    /\ UNCHANGED <<xargs, accumulator, pos, work, ncalls, yielded>>
    /\ UNCHANGED <<planVars, workVars, jobVars>>

\* The consumer raises while the generator is suspended at the yield: the
\* merge of the yielded result fails, or KeyboardInterrupt arrives during it.
\* "finally: gen.close()" throws GeneratorExit at the yield, the finally block
\* of the handler cancels what is pending, and the exception leaves.
ConsumerRaises(op, what) ==
    /\ xpc = "drain"
    /\ op \in done
    /\ futs[op].state = "finished"
    /\ IF what = "consumer interrupt" THEN Interrupts < xargs.signals ELSE xargs.faulty
    /\ done' = {}
    /\ yielded' = Append(yielded, op)
    /\ hlog' = Append(hlog, what)
    /\ futs' = Cancel(futures)
    /\ futures' = {}
    /\ HandlerExit("raised", futs')
    /\ UNCHANGED <<xargs, accumulator, pos, work, ncalls>>
    /\ UNCHANGED <<planVars, workVars, jobVars>>

\* KeyboardInterrupt arrives while the handler itself runs, in wait() or in
\* "done.pop().result()": "except KeyboardInterrupt" cancels the pending
\* operations, warns, and the "while futures" loop goes on; what was in done
\* is forgotten by the next wait.
Interrupt ==
    /\ xpc \in {"wait", "drain"}
    /\ Interrupts < xargs.signals
    /\ hlog' = Append(hlog, "interrupt")
    /\ futs' = Cancel(futures)
    /\ done' = {}
    /\ IF futures # {} THEN xpc' = "wait" ELSE HandlerExit("returned", futs')
    /\ UNCHANGED <<xargs, accumulator, futures, pos, work, ncalls, yielded>>
    /\ UNCHANGED <<planVars, workVars, jobVars>>

\* ------------------------------------------------------------ dask_executor
ReduceWithoutCheck(items) == Accumulate(items, None)

\* _reduce.__call__
Reduce(items) ==
    IF Len(items) = 0 THEN [error |-> "ValueError"]
    ELSE IF xargs.clevel # NoLevel
    THEN _compress(Accumulate([i \in 1 .. Len(items) - 1 |-> _decompress(items[i])],
                              _decompress(items[Len(items)])),
                   xargs.clevel)
    ELSE Accumulate(items, None)

\* [work[i : i + ntree] for i in range(0, len(work), ntree)]
Groups(w, ntree) ==
    [g \in 1 .. CeilDiv(Len(w), ntree) |->
        SubSeq(w, (g - 1) * ntree + 1, Min(g * ntree, Len(w)))]

\* client.map(function, items): the result of every task
TaskResults == [i \in 1 .. Len(xargs.items) |-> WrappedFunction(xargs.items[i])]

\* client.map(reducer, [work[i : i + ntree] for i in range(0, len(work), ntree)])
ReduceRound(w, ntree) ==
    [g \in 1 .. Len(Groups(w, ntree)) |-> Reduce(Groups(w, ntree)[g])]

\* "while len(work) > 1: work = client.map(reducer, ...)" run to its end, for
\* a branching factor of 2 or more
RECURSIVE TreeReduce(_, _)
TreeReduce(w, ntree) ==
    IF Len(w) <= 1 THEN w ELSE TreeReduce(ReduceRound(w, ntree), ntree)

\* client.map(function, items): the cluster computes every task once
DaskStart ==
    /\ xpc = "start" /\ xargs.executor = "dask"
    /\ IF EmptyItems(xargs.items)
       THEN ExecReturn(xargs.seed) /\ UNCHANGED <<work, ncalls>>
       ELSE /\ work' = TaskResults
            /\ ncalls' = [i \in 1 .. Len(xargs.items) |-> 1]
            /\ accumulator' = xargs.seed
            /\ xpc' = "reduce"
    /\ UNCHANGED <<xargs, futs, futures, done, pos, yielded, hlog>>
    /\ UNCHANGED <<planVars, workVars, jobVars>>

\* one pass of "while len(work) > 1: work = client.map(reducer, groups)"
DaskReduce ==
    /\ xpc = "reduce"
    /\ Len(work) > 1
    /\ work' = ReduceRound(work, xargs.treereduction)
    /\ UNCHANGED <<xargs, xpc, accumulator, futs, futures, done, pos, ncalls, yielded, hlog>>
    /\ UNCHANGED <<planVars, workVars, jobVars>>

\* work = work[0]; return accumulate([work.result() or its decompression], accumulator)
DaskResult ==
    /\ xpc = "reduce"
    /\ Len(work) <= 1
    /\ IF Len(work) = 0
       THEN xpc' = "raised" /\ accumulator' = accumulator
       ELSE ExecReturn(Accumulate(<<Consumed(work[1])>>, accumulator))
    /\ UNCHANGED <<xargs, futs, futures, done, pos, work, ncalls, yielded, hlog>>
    /\ UNCHANGED <<planVars, workVars, jobVars>>

\* The calls without disturbance: no tail timeout, no failure, no signal,
\* a pool instance handed in.
QuietCalls ==
    {a \in {[executor |-> e, items |-> [i \in 1 .. n |-> i], acctype |-> t, seed |-> sd,
             clevel |-> c, workers |-> w, treereduction |-> k, tailtimeout |-> FALSE,
             pool |-> "instance", faulty |-> FALSE, signals |-> 0, retries |-> 0] :
                e \in {"iterative", "futures", "parsl", "dask"},
                n \in 0 .. Max(MaxItems, MaxTree),
                t \in {"list", "sum"}, sd \in {None, Some(<<64>>)}, c \in {NoLevel, 1},
                w \in 1 .. MaxWorkers, k \in 1 .. MaxTree} :
        /\ a.executor # "dask" => Len(a.items) <= MaxItems
        /\ a.executor # "futures" => a.workers = 1
        /\ a.executor # "dask" => a.treereduction = 1}

\* The calls of the executors built on _futures_handler that meet one kind of
\* disturbance (a tail timeout, failing operations with retries, signals) or
\* have the executor make its own pool; lists, no seed, compression level 1.
DisturbedCalls ==
    {a \in {[executor |-> e, items |-> [i \in 1 .. n |-> i], acctype |-> "list",
             seed |-> None, clevel |-> 1, workers |-> w, treereduction |-> 1,
             tailtimeout |-> tt, pool |-> pl, faulty |-> fy, signals |-> sg,
             retries |-> rt] :
                e \in {"futures", "parsl"}, n \in 0 .. MaxItems,
                w \in 1 .. MaxWorkers, tt \in BOOLEAN, pl \in {"class", "instance"},
                fy \in BOOLEAN, sg \in 0 .. MaxSignals, rt \in 0 .. MaxRetries} :
        /\ a.tailtimeout \/ a.faulty \/ a.signals > 0 \/ a.pool = "class"
        /\ a.executor # "futures" => a.workers = 1 /\ a.pool = "instance"
        /\ a.tailtimeout => ~a.faulty /\ a.signals = 0
        /\ a.faulty => a.signals = 0
        /\ a.retries > 0 => a.faulty}

ExecCalls == QuietCalls \cup DisturbedCalls

ExecInit ==
    /\ PlanIdle /\ WorkIdle /\ JobIdle
    /\ xargs \in ExecCalls
    /\ xpc = "start"
    /\ accumulator = None
    /\ futs = <<>> /\ futures = {} /\ done = {}
    /\ pos = 0 /\ work = <<>>
    /\ ncalls = [i \in 1 .. Len(xargs.items) |-> 0]
    /\ yielded = <<>>
    /\ hlog = <<>>

ExecNext ==
    \/ IterativeStart
    \/ IterativeStep
    \/ FuturesStart
    \/ \E op \in 1 .. MaxItems : WorkerStart(op)
    \/ \E op \in 1 .. MaxItems : WorkerFinish(op)
    \/ \E op \in 1 .. MaxItems : WorkerFail(op)
    \/ \E op \in 1 .. MaxItems : WorkerRetry(op)
    \/ WaitDone
    \/ WaitTimeout
    \/ \E op \in 1 .. MaxItems : YieldOne(op)
    \/ \E op \in 1 .. MaxItems : YieldRaises(op)
    \/ \E op \in 1 .. MaxItems, what \in {"merge error", "consumer interrupt"} :
          ConsumerRaises(op, what)
    \/ Interrupt
    \/ PoolShutdown
    \/ DaskStart
    \/ DaskReduce
    \/ DaskResult

SpecExec == ExecInit /\ [][ExecNext]_vars

\* A call of dask_executor keeps going: the cluster computes the tasks it was
\* given, and the loop and the return of the executor are not held up.
SpecDask ==
    /\ ExecInit /\ [][ExecNext]_vars
    /\ WF_vars(DaskStart) /\ WF_vars(DaskReduce) /\ WF_vars(DaskResult)

\* The steps of the thread that called the executor: _futures_handler, the
\* accumulate() that consumes it, and the exit of the "with" block.
CallerStep ==
    \/ IterativeStart
    \/ IterativeStep
    \/ FuturesStart
    \/ WaitDone
    \/ WaitTimeout
    \/ \E op \in 1 .. MaxItems : YieldOne(op)
    \/ \E op \in 1 .. MaxItems : YieldRaises(op)
    \/ PoolShutdown

\* A call of an executor whose own thread keeps going and whose pool keeps
\* taking up queued operations, while the function called by a worker may
\* never return: wait() with a timeout returns, a generator that is resumed
\* runs on, and a shutdown that has nothing to wait for ends.
SpecTail ==
    /\ ExecInit /\ [][ExecNext]_vars
    /\ WF_vars(CallerStep)
    /\ \A op \in 1 .. MaxItems : WF_vars(WorkerStart(op))

\* ------------------------------------------------------ _reduce, on its own
\* A call _reduce(clevel)(payloads): the payloads are results of the function
\* (compressed when clevel is not None), in any order and number.
ReduceCalls ==
    {[executor |-> "reduce", items |-> items, acctype |-> t, clevel |-> c] :
        items \in UNION {[1 .. n -> 1 .. MaxItems] : n \in 0 .. MaxItems},
        t \in {"list", "sum"}, c \in {NoLevel, 1}}

ReduceInit ==
    /\ PlanIdle /\ WorkIdle /\ JobIdle
    /\ xargs \in ReduceCalls
    /\ xpc = "start"
    /\ accumulator = None
    /\ futs = <<>> /\ futures = {} /\ done = {}
    /\ pos = 0 /\ work = <<>>
    /\ ncalls = [i \in 1 .. Len(xargs.items) |-> 0]
    /\ yielded = <<>>
    /\ hlog = <<>>

\* The payloads are computed: function, or its compression wrapper, is called
\* on every item.
ReducePayloads ==
    /\ xpc = "start" /\ xargs.executor = "reduce"
    /\ work' = TaskResults
    /\ ncalls' = [i \in 1 .. Len(xargs.items) |-> 1]
    /\ xpc' = "call"
    /\ UNCHANGED <<xargs, accumulator, futs, futures, done, pos, yielded, hlog>>
    /\ UNCHANGED <<planVars, workVars, jobVars>>

\* _reduce.__call__(payloads) returns its value or raises ValueError.
ReduceCall ==
    /\ xpc = "call"
    /\ IF Reduce(work) = [error |-> "ValueError"]
       THEN xpc' = "raised" /\ work' = <<>>
       ELSE xpc' = "returned" /\ work' = <<Reduce(work)>>
    /\ UNCHANGED <<xargs, accumulator, futs, futures, done, pos, ncalls, yielded, hlog>>
    /\ UNCHANGED <<planVars, workVars, jobVars>>

ReduceNext == ReducePayloads \/ ReduceCall

SpecReduce == ReduceInit /\ [][ReduceNext]_vars

\* A call of an executor, or a call of the function it hands the items to.
SpecUnit == (ExecInit \/ WorkInit) /\ [][ExecNext \/ WorkNext]_vars

C7_EmptyItems ==
    (xpc # "idle" /\ Len(xargs.items) = 0 /\ xpc # "start") =>
        /\ xpc = "returned"
        /\ accumulator = xargs.seed
        /\ futs = <<>> /\ futures = {} /\ work = <<>>
        /\ \A i \in DOMAIN ncalls : ncalls[i] = 0

\* C7 witness: dask_executor returned a seed that is not None for no items.
C7_Witness ==
    /\ xpc = "returned" /\ Len(xargs.items) = 0
    /\ xargs.executor = "dask" /\ ~xargs.seed.none
    /\ accumulator = xargs.seed

\* C14: iterative_executor and futures_executor call function on every item
\* at most once (exactly once when the call returns undisturbed), and one
\* call of _work_function or _get_metadata makes at most 1 + retries attempts.
C14_AtMostOnePlusRetries ==
    /\ xargs.executor \in {"iterative", "futures"} =>
          \A i \in DOMAIN ncalls :
              /\ ncalls[i] <= 1
              /\ (xpc = "returned" /\ hlog = <<>>) => ncalls[i] = 1
    /\ Len(attempts) <= 1 + retries
    /\ Len(mattempts) <= 1 + retries

\* C14 witness: both functions used every attempt they had.
C14_Witness ==
    /\ retries >= 1 /\ wpc # "loop" /\ mpc # "loop"
    /\ Len(attempts) = 1 + retries
    /\ Len(mattempts) = 1 + retries

Handled == xargs.executor \in {"futures", "parsl"}

\* C16: when a wait ends after the timeout with nothing done, the handler
\* ends without raising: cancellation is requested on every operation still
\* pending, its pending set is empty, and what it yielded are exactly the
\* results of the operations that completed.
C16_TailStall ==
    [][hlog' = Append(hlog, "timeout") =>
          /\ xpc = "wait" /\ xpc' \in {"returned", "shutdown"}
          /\ futures' = {}
          /\ \A op \in futures : futs'[op].cancelreq
          /\ yielded' = yielded /\ accumulator' = accumulator
          /\ Range(yielded') = {op \in DOMAIN futs : futs[op].state = "finished"}]_vars

\* C16 witness: of three operations two completed and were yielded, the
\* third never completed, and the handler ended on the timeout.
C16_Witness ==
    /\ Handled /\ hlog = <<"timeout">> /\ xpc = "returned"
    /\ Len(xargs.items) = 3 /\ Len(yielded) = 2
    /\ \E op \in DOMAIN futs : futs[op].state = "running" /\ futs[op].cancelreq

\* C17: the handler yields at most N results, none twice, and a result seen
\* done in an earlier wait is yielded before one seen done in a later wait.
C17_CompletionOrder ==
    Handled =>
        /\ Len(yielded) <= Len(xargs.items)
        /\ \A i, j \in 1 .. Len(yielded) :
              i < j => /\ yielded[i] # yielded[j]
                       /\ futs[yielded[i]].round >= 1
                       /\ futs[yielded[i]].round <= futs[yielded[j]].round

\* C17 witness: three results yielded out of submission order, over more
\* than one wait.
C17_Witness ==
    /\ Handled /\ Len(yielded) = 3 /\ yielded[1] = 3
    /\ futs[yielded[1]].round < futs[yielded[3]].round

\* C18 as stated: once KeyboardInterrupt arrived in the handler, nothing more
\* is yielded to the consumer: the operations that were running are waited
\* for and their results discarded.
C18_Original ==
    [][(Handled /\ hlog # <<>> /\ Last(hlog) = "interrupt") => yielded' = yielded]_vars

\* C18 amended: KeyboardInterrupt arriving while the handler runs makes it
\* request cancellation of every pending operation and go on waiting for
\* them without raising; unless another signal or failure arrives it ends,
\* normally, only when none is outstanding.
C18_InterruptHandled ==
    [][/\ hlog' = Append(hlog, "interrupt") =>
             /\ \A op \in futures : futs'[op].cancelreq
             /\ futures' = futures /\ yielded' = yielded
             /\ IF futures # {} THEN xpc' = "wait" ELSE xpc' = "returned"
       /\ (hlog # <<>> /\ Last(hlog) = "interrupt" /\ hlog' = hlog /\ xpc # xpc') =>
             /\ xpc' \in {"wait", "drain", "returned"}
             /\ xpc' = "returned" => {op \in DOMAIN futs :
                                         futs'[op].state \in {"queued", "running"}} = {}]_vars

\* C18 witness: the result of an operation that was running when the signal
\* arrived, and on which cancellation was requested, was yielded afterwards.
C18_Witness ==
    /\ Handled /\ hlog = <<"interrupt">> /\ xpc = "returned"
    /\ \E i \in 1 .. Len(yielded) : futs[yielded[i]].cancelreq

\* C19 as stated: once a KeyboardInterrupt was received during the run, the
\* executor does not return normally.
C19_Original ==
    (Handled /\ \E i \in 1 .. Len(hlog) : hlog[i] \in {"interrupt", "consumer interrupt"})
        => xpc # "returned"

\* C19 amended: a KeyboardInterrupt that arrives in the consumer, while the
\* handler is suspended at its yield, leaves the executor after cancellation
\* was requested on every pending operation and the pending set emptied; one
\* that arrives while the handler runs is caught and never leaves.
C19_AbortSignal ==
    /\ (hlog # <<>> /\ Last(hlog) = "consumer interrupt") =>
          /\ xpc \in {"raised", "shutdown"}
          /\ futures = {} /\ done = {}
          /\ \A op \in Outstanding : futs[op].cancelreq
    /\ (hlog # <<>> /\ Last(hlog) = "interrupt") => xpc # "raised"

\* C19 witness: the signal arrived in the consumer and left the executor
\* after a queued operation was cancelled.
C19_Witness ==
    /\ Handled /\ hlog = <<"consumer interrupt">> /\ xpc = "raised"
    /\ \E op \in DOMAIN futs : futs[op].state = "cancelled"

\* C20: when the result of an operation raises in the handler, or the merge
\* of the consumer raises and the generator is closed, the failure leaves
\* with cancellation requested on every operation not yet completed and
\* with the pending set of the handler empty.
C20_CancelledOnFailure ==
    (hlog # <<>> /\ Last(hlog) \in {"error", "merge error"}) =>
        /\ xpc \in {"raised", "shutdown"}
        /\ futures = {}
        /\ \A op \in Outstanding : futs[op].cancelreq

\* C20 witness: an operation failed while another was running and a third
\* was queued; the failure left, the queued one cancelled.
C20_Witness ==
    /\ Handled /\ hlog = <<"error">> /\ xpc = "raised"
    /\ \E op \in DOMAIN futs : futs[op].state = "cancelled"
    /\ \E op \in DOMAIN futs : futs[op].state = "running" /\ futs[op].cancelreq

\* C21: in every state of _futures_handler, an operation whose result was
\* yielded to the consumer is neither in the pending set (futures) nor in
\* the done set: the handler keeps no reference to it after the yield.
C21_NoRetainedReference ==
    \A i \in 1 .. Len(yielded) : yielded[i] \notin futures \cup done

\* A result was yielded while the handler still holds other operations, some
\* pending and some done.
C21_Witness ==
    /\ xpc = "drain"
    /\ yielded # <<>>
    /\ futures # {}
    /\ done # {}

\* C22: no operation is retried concurrently with itself: in every state of
\* a run of futures_executor over the retrying function, each Work Unit has
\* at most one attempt in progress, and only while its one call is running;
\* no Work Unit is handed to the function by more than one call.
C22_OneAttemptAtATime ==
    \A op \in DOMAIN futs :
        /\ Cardinality(futs[op].active) <= 1
        /\ futs[op].active # {} <=> futs[op].state = "running"
        /\ ncalls[op] <= 1

\* A retry of one Work Unit is in progress while another Work Unit is being
\* attempted too.
C22_Witness ==
    \E op, other \in DOMAIN futs :
        /\ op # other
        /\ futs[op].active \cap (2 .. MaxRetries + 1) # {}
        /\ futs[other].state = "running"

\* C23: tree reduction in dask_executor, for every number of task results
\* and every branching factor treereduction >= 1: the loop
\* "while len(work) > 1" terminates and the executor returns with the one
\* value that remains merged into the accumulator.
C23_TreeReductionTerminates ==
    (xargs.executor = "dask") => <>(xpc = "returned")

\* C24: tree reduction is invariant to grouping: the five task results
\* [a, b, c, d, e], merged by an associative merge, reduce to the same value
\* under branching factor 2 as under branching factor 5, with compression
\* and without.
C24_GroupingInvariant ==
    (/\ xargs.executor = "dask" /\ xpc = "returned"
     /\ Len(xargs.items) = 5 /\ xargs.treereduction = 2) =>
        accumulator = Accumulate(<<Consumed(TreeReduce(TaskResults, 5)[1])>>, xargs.seed)

\* C25: reducing zero inputs is a hard error: _reduce called with an empty
\* sequence raises, for every compression level and for None, and returns
\* no value.
C25_EmptyReductionRaises ==
    (xargs.executor = "reduce" /\ Len(xargs.items) = 0 /\ xpc \notin {"start", "call"}) =>
        /\ xpc = "raised"
        /\ work = <<>>

\* _reduce(None) was called with no payloads and raised.
C25_Witness ==
    /\ xargs.executor = "reduce" /\ Len(xargs.items) = 0
    /\ xargs.clevel = NoLevel
    /\ xpc = "raised"

\* C26: compression round trip: _decompress(_compress(x, level)) = x for
\* every result x, and for payloads that are not empty
\* _decompress(_reduce(level)(payloads)) is the merge of the decompressed
\* payloads (so that compression changes no result).
C26_CompressionRoundTrip ==
    (xargs.executor = "reduce" /\ xargs.clevel # NoLevel) =>
        /\ \A i \in 1 .. Len(xargs.items) :
              _decompress(_compress(Function(xargs.items[i]), xargs.clevel))
                  = Function(xargs.items[i])
        /\ xpc = "returned" =>
              _decompress(work[1])
                  = Accumulate([i \in 1 .. Len(xargs.items) |-> _decompress(TaskResults[i])],
                               None)

\* ------------------------------------------------------------ run_uproot_job
\* maxchunks=None
NoMax == 0 - 1

DatasetNames == <<"A", "B">>

Reverse(s) == [i \in 1 .. Len(s) |-> s[Len(s) + 1 - i]]

\* dict.update
MetaUpdate(a, b) ==
    [k \in (DOMAIN a) \cup (DOMAIN b) |-> IF k \in DOMAIN b THEN b[k] ELSE a[k]]

\* coffea.util._hash of the tuple (filename, treename): a digest, which
\* different tuples can share.
_hash(filename, treename) == (filename + (IF treename = TreeName THEN 0 ELSE 1)) % 2

\* FileMeta.__hash__
__hash__(self) == _hash(self.filename, self.treename)

EqWithDataset(self, other) ==
    /\ self.dataset = other.dataset
    /\ self.filename = other.filename /\ self.treename = other.treename

\* FileMeta.__eq__
__eq__(self, other) == self.filename = other.filename /\ self.treename = other.treename

\* The metadata cache is a mapping keyed by FileMeta objects, held as the list
\* of its entries [key, value] in insertion order; a key finds the entry
\* whose key has its hash and is equal to it.
CacheFind(cache, filemeta) ==
    {i \in 1 .. Len(cache) :
        __hash__(cache[i].key) = __hash__(filemeta) /\ __eq__(cache[i].key, filemeta)}

\* metadata_cache[filemeta] = metadata
CachePut(cache, filemeta, metadata) ==
    IF CacheFind(cache, filemeta) = {}
    THEN Append(cache, [key |-> [dataset |-> filemeta.dataset,
                                 filename |-> filemeta.filename,
                                 treename |-> filemeta.treename],
                        value |-> metadata])
    ELSE [cache EXCEPT ![CHOOSE i \in CacheFind(cache, filemeta) :
                            \A j \in CacheFind(cache, filemeta) : i <= j].value = metadata]

\* _normalize_fileset: one FileMeta per file, dataset by dataset
RECURSIVE _normalize_fileset(_)
_normalize_fileset(input) ==
    IF input = <<>> THEN <<>>
    ELSE [i \in 1 .. Len(Head(input).files) |->
             FileMeta(Head(input).dataset, Head(input).files[i], TreeName,
                      Head(input).metadata)]
         \o _normalize_fileset(Tail(input))

ReservedInFirst(input) ==
    input # <<>> /\ (DOMAIN input[1].metadata) \cap _PROTECTED_NAMES # {}

\* _normalize_fileset: "for rkey in reserved_metakeys: if rkey in
\* user_meta.keys(): raise ValueError", met for some dataset of the file set
ReservedIn(input) ==
    \E d \in 1 .. Len(input) : (DOMAIN input[d].metadata) \cap _PROTECTED_NAMES # {}

\* FileMeta.maybe_populate
maybe_populate(filemeta, cache) ==
    IF CacheFind(cache, filemeta) # {}
    THEN [filemeta EXCEPT !.metadata =
             cache[CHOOSE i \in CacheFind(cache, filemeta) :
                      \A j \in CacheFind(cache, filemeta) : i <= j].value]
    ELSE filemeta

\* _get_metadata on a readable file: the metadata of the FileMeta it returns
_get_metadata(item) ==
    LET found == disk[item.filename].metadata
        base == MetaUpdate(MetaUpdate(<<>>, item.metadata),
                           [numentries |-> found["numentries"], uuid |-> found["uuid"]])
    IN  IF align_clusters
        THEN MetaUpdate(base, [clusters |-> found["clusters"]])
        ELSE base

\* FileMeta.chunks without resizing, as the list of its WorkItems
RECURSIVE EvenChunksFrom(_, _, _)
EvenChunksFrom(filemeta, start, actual_chunksize) ==
    IF start < NumEntries(filemeta)
    THEN <<MakeItem(filemeta, start,
                    ChunkStop(NumEntries(filemeta), start, actual_chunksize))>>
         \o EvenChunksFrom(filemeta,
                           ChunkStop(NumEntries(filemeta), start, actual_chunksize),
                           actual_chunksize)
    ELSE <<>>

FileChunks(filemeta) ==
    IF align_clusters
    THEN LET chunks == AlignBoundaries(filemeta.metadata["clusters"], chunksize)
         IN  [i \in 1 .. Len(chunks) - 1 |-> MakeItem(filemeta, chunks[i], chunks[i + 1])]
    ELSE EvenChunksFrom(filemeta, 0, ActualChunksize(NumEntries(filemeta), chunksize))

\* _chunk_generator, maxchunks None
RECURSIVE AllChunks(_)
AllChunks(fs) ==
    IF fs = <<>> THEN <<>> ELSE FileChunks(Head(fs)) \o AllChunks(Tail(fs))

\* The cap tested between files only: a file under the cap gives all its chunks.
RECURSIVE CappedChunksWholeFiles(_, _, _)
CappedChunksWholeFiles(fs, nchunks, chunks) ==
    IF fs = <<>> THEN chunks
    ELSE LET ds == Head(fs).dataset
         IN  IF nchunks[ds] >= maxchunks
             THEN CappedChunksWholeFiles(Tail(fs), nchunks, chunks)
             ELSE CappedChunksWholeFiles(
                      Tail(fs),
                      [nchunks EXCEPT ![ds] = @ + Len(FileChunks(Head(fs)))],
                      chunks \o FileChunks(Head(fs)))

\* _chunk_generator, maxchunks set: nchunks counts the chunks kept per dataset
RECURSIVE CappedChunks(_, _, _)
CappedChunks(fs, nchunks, chunks) ==
    IF fs = <<>> THEN chunks
    ELSE LET ds == Head(fs).dataset
         IN  IF nchunks[ds] >= maxchunks THEN CappedChunks(Tail(fs), nchunks, chunks)
             ELSE LET fc == FileChunks(Head(fs))
                      take == Min(Len(fc), maxchunks - nchunks[ds])
                  IN  CappedChunks(Tail(fs), [nchunks EXCEPT ![ds] = @ + take],
                                   chunks \o SubSeq(fc, 1, take))

_chunk_generator(fs) ==
    IF maxchunks = NoMax THEN AllChunks(fs)
    ELSE CappedChunks(fs, [d \in {fs[i].dataset : i \in 1 .. Len(fs)} |-> 0], <<>>)

RECURSIVE EventsTotal(_)
EventsTotal(chunks) ==
    IF chunks = <<>> THEN 0 ELSE WorkItemLen(Head(chunks)) + EventsTotal(Tail(chunks))

JobRaise(exc) ==
    /\ jpc' = "raised"
    /\ jresult' = [kind |-> "raised", exc |-> exc, out |-> None]

JobUnchangedArgs ==
    UNCHANGED <<jinput, disk, maxchunks, jexecutor, jformat, chunksize, align_clusters,
                dynamic_chunksize, skipbadfiles, retries, use_dataframes,
                lasthint, hinted, retry_count, out, wpc, wresult, attempts, warned,
                fetchVars, execVars, stream>>

\* run_uproot_job, lines 1084-1128: the file set is normalized (reserved
\* metadata keys are refused), every FileMeta is populated from the cache,
\* and conflicting options are refused.
JobNormalize ==
    /\ jpc = "start" /\ jformat = "root"
    /\ IF ReservedIn(jinput)
       THEN JobRaise("ValueError") /\ UNCHANGED <<fileset, jidx>>
       ELSE /\ fileset' = [i \in 1 .. Len(_normalize_fileset(jinput)) |->
                              maybe_populate(_normalize_fileset(jinput)[i],
                                             metadata_cache)]
            /\ IF \/ align_clusters /\ dynamic_chunksize
                  \/ maxchunks \notin {NoMax, 0} /\ dynamic_chunksize
                  \/ dynamic_chunksize /\ jexecutor # "work_queue"
               THEN JobRaise("RuntimeError") /\ jidx' = jidx
               ELSE jpc' = "preprocess" /\ jidx' = 1 /\ jresult' = jresult
    /\ UNCHANGED <<metadata_cache, written, fetched, emitted, gen>>
    /\ JobUnchangedArgs

\* The cache after the metadata of the files of fs were written into it.
RECURSIVE CacheFilled(_, _)
CacheFilled(cache, fs) ==
    IF fs = <<>> THEN cache
    ELSE CacheFilled(CachePut(cache, Head(fs), _get_metadata(Head(fs))), Tail(fs))

\* set(filemeta for filemeta in ...): of the FileMeta that are equal (and hash
\* alike) the set keeps the one added first.
AsSet(fs) ==
    LET keep == {i \in 1 .. Len(fs) :
                    \A j \in 1 .. i - 1 :
                        ~(__hash__(fs[j]) = __hash__(fs[i]) /\ __eq__(fs[j], fs[i]))}
    IN  [k \in 1 .. Cardinality(keep) |-> fs[SortedSeq(keep)[k]]]

WrittenInterleaved(toget) ==
    [i \in 1 .. Len(toget) |->
        [file |-> toget[i].filename, fetches |-> Len(fetched) + i,
         planned |-> Len(emitted)]]

\* "while out: item = out.pop(); metadata_cache[item] = item.metadata", after
\* pre_executor returned: every write comes after all the fetches
WrittenAfterPass(toget) ==
    [i \in 1 .. Len(toget) |->
        [file |-> toget[i].filename, fetches |-> Len(fetched) + Len(toget),
         planned |-> Len(emitted)]]

\* _preprocess_fileset, maxchunks None: the unpopulated files are fetched in
\* one executor call, the results written to the cache, every FileMeta
\* populated from the cache.
JobPreprocessAll ==
    /\ jpc = "preprocess" /\ maxchunks = NoMax
    /\ LET toget == AsSet(SelectSeq(fileset, LAMBDA fm : ~populated(fm, align_clusters)))
           cache == CacheFilled(metadata_cache, toget)
       IN  /\ metadata_cache' = cache
           /\ written' = written \o WrittenAfterPass(toget)
           /\ fetched' = fetched \o [i \in 1 .. Len(toget) |-> toget[i].filename]
           /\ fileset' = IF toget = <<>> THEN fileset
                         ELSE [i \in 1 .. Len(fileset) |-> maybe_populate(fileset[i], cache)]
    /\ jpc' = "filter"
    /\ UNCHANGED <<jidx, jresult, emitted, gen>>
    /\ JobUnchangedArgs

\* _preprocess_fileset, maxchunks set: one pass of "for filemeta in fileset"
JobPreprocessOne ==
    /\ jpc = "preprocess" /\ maxchunks # NoMax
    /\ IF jidx > Len(fileset)
       THEN jpc' = "filter" /\ UNCHANGED <<jidx, fileset, metadata_cache, written, fetched>>
       ELSE /\ jpc' = jpc
            /\ jidx' = jidx + 1
            /\ IF skipbadfiles \/ populated(fileset[jidx], align_clusters)
               THEN UNCHANGED <<fileset, metadata_cache, written, fetched>>
               ELSE /\ fileset' = [fileset EXCEPT ![jidx].metadata =
                                        _get_metadata(fileset[jidx])]
                    /\ metadata_cache' = CachePut(metadata_cache, fileset[jidx],
                                                  _get_metadata(fileset[jidx]))
                    /\ fetched' = Append(fetched, fileset[jidx].filename)
                    /\ written' = Append(written,
                                         [file |-> fileset[jidx].filename,
                                          fetches |-> Len(fetched) + 1,
                                          planned |-> Len(emitted)])
    /\ UNCHANGED <<jresult, emitted, gen>>
    /\ JobUnchangedArgs

BadFilesNeverRaise(fs) == FALSE

\* _filter_badfiles: "elif not skipbadfiles: raise RuntimeError", met for a
\* FileMeta that is not populated
BadFilesRaise(fs) ==
    ~skipbadfiles /\ \E i \in 1 .. Len(fs) : ~populated(fs[i], align_clusters)

\* _filter_badfiles, then fileset.reverse()
JobFilter ==
    /\ jpc = "filter"
    /\ IF BadFilesRaise(fileset)
       THEN JobRaise("RuntimeError") /\ fileset' = fileset
       ELSE /\ fileset' = Reverse(SelectSeq(fileset,
                                            LAMBDA fm : populated(fm, align_clusters)))
            /\ jpc' = "plan" /\ jresult' = jresult
    /\ UNCHANGED <<metadata_cache, written, fetched, jidx, emitted, gen>>
    /\ JobUnchangedArgs

\* lines 1154-1213: "chunks = [c for c in chunks]" materializes the plan;
\* with dynamic_chunksize the generator itself is handed to the executor,
\* which pulls the units from it (with maxchunks set the generator holds the
\* finished list).
JobPlan ==
    /\ jpc = "plan"
    /\ IF dynamic_chunksize /\ maxchunks = NoMax
       THEN gen' = Created /\ emitted' = <<>>
       ELSE /\ emitted' = _chunk_generator(fileset)
            /\ gen' = IF dynamic_chunksize THEN Exhausted ELSE gen
    /\ jpc' = "dispatch"
    /\ UNCHANGED <<fileset, metadata_cache, written, fetched, jidx, jresult>>
    /\ JobUnchangedArgs

\* run_parquet_job, lines 1385-1409: one WorkItem per file of every dataset,
\* from entry 0 to entry 0 and with no uuid; _work_function reads such a
\* file whole.
RECURSIVE ParquetChunks(_)
ParquetChunks(input) ==
    IF input = <<>> THEN <<>>
    ELSE [i \in 1 .. Len(Head(input).files) |->
             WorkItem(Head(input).dataset, Head(input).files[i], TreeName, 0, 0, "",
                      NoMetadata)]
         \o ParquetChunks(Tail(input))

JobParquetPlan ==
    /\ jpc = "start" /\ jformat = "parquet"
    /\ emitted' = ParquetChunks(jinput)
    /\ jpc' = "dispatch"
    /\ UNCHANGED <<fileset, metadata_cache, written, fetched, jidx, jresult, gen>>
    /\ JobUnchangedArgs

\* The entries _work_function processes for the units: those of their
\* ranges, or for parquet files all that the files hold.
RECURSIVE EntriesOfFiles(_)
EntriesOfFiles(chunks) ==
    IF chunks = <<>> THEN 0
    ELSE NumEntries(disk[Head(chunks).filename]) + EntriesOfFiles(Tail(chunks))

EntriesProcessed(chunks) ==
    IF jformat = "parquet" THEN EntriesOfFiles(chunks) ELSE EventsTotal(chunks)

\* wrapped_out = executor(chunks, closure, None, **exe_args): every executor
\* returns the accumulator it was given, None, for no chunks; otherwise the
\* merged {"out": ...} of the units, here the number of entries processed.
JobDispatch ==
    /\ jpc = "dispatch"
    /\ dynamic_chunksize => gen.pc = "exhausted"
    /\ jresult' = [kind |-> "wrapped_out", exc |-> "",
                   out |-> IF EmptyItems(emitted) THEN None
                           ELSE Some(<<EntriesProcessed(emitted)>>)]
    /\ jpc' = "postprocess"
    /\ UNCHANGED <<fileset, metadata_cache, written, fetched, jidx, emitted, gen>>
    /\ JobUnchangedArgs

\* processor_instance.postprocess(wrapped_out["out"]); return wrapped_out["out"]
\* Subscripting None raises TypeError.
JobPostprocess ==
    /\ jpc = "postprocess"
    /\ IF jresult.out.none
       THEN JobRaise("TypeError")
       ELSE jpc' = "returned" /\ jresult' = [jresult EXCEPT !.kind = "returned"]
    /\ UNCHANGED <<fileset, metadata_cache, written, fetched, jidx, emitted, gen>>
    /\ JobUnchangedArgs

\* The fileset arguments: at most two datasets holding the files 1 .. n,
\* which are numbered in the order the fileset lists them.
JobInputs(n) ==
    UNION {{[d \in 1 .. nd |->
                [dataset |-> DatasetNames[d],
                 files |-> SortedSeq({i \in 1 .. n : a[i] = d}),
                 metadata |-> NoMetadata]] :
               a \in {b \in [1 .. n -> 1 .. nd] :
                         \A i, j \in 1 .. n : i <= j => b[i] <= b[j]}} :
           nd \in 0 .. Len(DatasetNames)}

\* The "metadata" section a dataset of the fileset can carry: one key, a
\* reserved one or not, or a reserved key next to another.
UserMetadatas ==
    {[k \in {key} |-> 0] : key \in _PROTECTED_NAMES \cup {"tag"}}
        \cup {[k \in {"tag", "uuid"} |-> 0]}

\* The fileset with a metadata section in one of its datasets.
WithMetadata(input) ==
    {[input EXCEPT ![d].metadata = m] : d \in 1 .. Len(input), m \in UserMetadatas}

\* The file sets in which dataset B lists the first file of dataset A again,
\* the two datasets with different metadata sections.
SharedInputs(n) ==
    {<<[dataset |-> "A", files |-> [f \in 1 .. n |-> f], metadata |-> ma],
       [dataset |-> "B", files |-> <<1>>, metadata |-> mb]>> :
        ma \in {NoMetadata, [tag |-> 0]}, mb \in {NoMetadata, [tag |-> 1]}}
      \ {<<[dataset |-> "A", files |-> [f \in 1 .. n |-> f], metadata |-> NoMetadata],
           [dataset |-> "B", files |-> <<1>>, metadata |-> NoMetadata]>>}

\* The fileset argument of a call that gives no metadata sections.
WithoutMetadata(input) ==
    [d \in 1 .. Len(input) |-> [input[d] EXCEPT !.metadata = NoMetadata]]

HasMetadata(input) == \E d \in 1 .. Len(input) : input[d].metadata # NoMetadata

\* What uproot finds in file i is disk[i].metadata; the clusters of a file
\* are cut every two entries.
Disks(n) ==
    {[i \in 1 .. n |->
         [fs[i] EXCEPT !.metadata =
             MetaUpdate(@, [clusters |->
                 SortedSeq({c \in 0 .. NumEntries(fs[i]) :
                               c % 2 = 0 \/ c = NumEntries(fs[i])})])]] :
        fs \in FilesetsOf(n, MaxJobEntries, FALSE)}

\* The example of the chunking section: two files of 250000 and 50000 entries
\* under the default chunksize.
ExampleDisk ==
    [i \in 1 .. 2 |->
        FileMeta("A", i, TreeName,
                 [numentries |-> IF i = 1 THEN 250000 ELSE 50000,
                  uuid |-> FileUuid(i),
                  clusters |-> <<0, IF i = 1 THEN 250000 ELSE 50000>>])]

ExampleJob ==
    /\ jinput = <<[dataset |-> "A", files |-> <<1, 2>>, metadata |-> NoMetadata]>>
    /\ disk = ExampleDisk
    /\ chunksize = DefaultChunksize
    /\ align_clusters = FALSE /\ dynamic_chunksize = FALSE
    /\ maxchunks = NoMax /\ skipbadfiles = FALSE
    /\ jexecutor = "iterative"

SmallJob ==
    /\ \E n \in 0 .. MaxFiles :
          \/ /\ jinput \in JobInputs(n)
             /\ disk \in Disks(n)
             /\ chunksize \in 1 .. MaxChunksize
             /\ align_clusters \in BOOLEAN
             /\ maxchunks \in {NoMax} \cup (0 .. MaxMaxchunks)
             /\ skipbadfiles \in BOOLEAN
          \/ /\ jinput \in UNION {WithMetadata(i) : i \in JobInputs(n)}
             /\ disk \in {d \in Disks(n) : \A i \in 1 .. n : NumEntries(d[i]) = 1}
             /\ chunksize = MaxChunksize
             /\ align_clusters = FALSE
             /\ maxchunks = NoMax
             /\ skipbadfiles = FALSE
          \/ /\ n >= 1
             /\ jinput \in SharedInputs(n)
             /\ disk \in {d \in Disks(n) : \A i \in 1 .. n : NumEntries(d[i]) = 1}
             /\ chunksize = MaxChunksize
             /\ align_clusters = FALSE
             /\ maxchunks \in {NoMax, MaxMaxchunks}
             /\ skipbadfiles = FALSE
    /\ dynamic_chunksize \in BOOLEAN
    /\ jexecutor \in IF dynamic_chunksize THEN {"iterative", "work_queue"}
                     ELSE {"iterative"}

\* A call of run_parquet_job: the datasets with the files found in their
\* directories; none of the chunking options exists.
ParquetJob ==
    /\ \E n \in 0 .. MaxFiles :
          /\ jinput \in JobInputs(n)
          /\ disk \in Disks(n)
    /\ chunksize = 1
    /\ align_clusters = FALSE /\ dynamic_chunksize = FALSE
    /\ maxchunks = NoMax /\ skipbadfiles = FALSE
    /\ jexecutor = "iterative"

\* The metadata cache handed to run_uproot_job: empty, or holding what an
\* earlier call with the same arguments, but no metadata sections in the
\* file set, stored for every file.
StartCaches ==
    {<<>>} \cup (IF ReservedIn(jinput) \/ dynamic_chunksize THEN {}
                 ELSE {CacheFilled(<<>>, _normalize_fileset(WithoutMetadata(jinput)))})

JobInit ==
    /\ \/ /\ SmallJob \/ ExampleJob
          /\ jformat = "root"
          /\ metadata_cache \in StartCaches
       \/ /\ ParquetJob
          /\ jformat = "parquet"
          /\ metadata_cache = <<>>
    /\ fileset = <<>> /\ emitted = <<>> /\ fetched = <<>>
    /\ jpc = "start" /\ jidx = 0 /\ written = <<>>
    /\ stream = [pc |-> "idle"]
    /\ jresult = [kind |-> "none", exc |-> "", out |-> None]
    /\ gen = [pc |-> "idle", file |-> 0, start |-> 0, stop |-> 0,
              actual_chunksize |-> 0, k |-> 0]
    /\ lasthint = 0 /\ hinted = FALSE
    /\ retries = 0 /\ use_dataframes = FALSE
    /\ retry_count = 0 /\ out = Unbound /\ wpc = "idle" /\ wresult = NoResult
    /\ attempts = <<>> /\ warned = <<>>
    /\ FetchIdle
    /\ ExecIdle

JobNext ==
    \/ JobNormalize
    \/ JobParquetPlan
    \/ JobPreprocessAll
    \/ JobPreprocessOne
    \/ JobFilter
    \/ JobPlan
    \/ \E hint \in 0 .. MaxHint : Pull(hint)
    \/ JobDispatch
    \/ JobPostprocess

SpecJob == JobInit /\ [][JobNext]_vars

\* ------------------------------------------------ _filter_badfiles, called
\* The metadata a FileMeta can hold when _filter_badfiles meets it: none, the
\* minimum (numentries and uuid), or all that the file holds.
MetadataLevels(metadata) ==
    {NoMetadata, [k \in {"numentries", "uuid"} |-> metadata[k]], metadata}

\* run_uproot_job from "fileset = _filter_badfiles(fileset, align_clusters,
\* skipbadfiles)" on, for a file set of any mix of populated and unpopulated
\* FileMeta.
FilterInit ==
    /\ \E n \in 0 .. MaxFiles :
          /\ disk \in Disks(n)
          /\ fileset \in {fs \in [1 .. n -> UNION {{FileMeta("A", f, TreeName, m) :
                                                       m \in MetadataLevels(disk[f].metadata)} :
                                                   f \in 1 .. n}] :
                             \A f \in 1 .. n : fs[f].filename = f}
          /\ jinput = <<[dataset |-> "A", files |-> [f \in 1 .. n |-> f],
                         metadata |-> NoMetadata]>>
    /\ chunksize \in 1 .. MaxChunksize
    /\ align_clusters \in BOOLEAN /\ skipbadfiles \in BOOLEAN
    /\ dynamic_chunksize = FALSE /\ maxchunks = NoMax /\ jexecutor = "iterative"
    /\ jformat = "root" /\ metadata_cache = <<>>
    /\ emitted = <<>> /\ fetched = <<>> /\ written = <<>>
    /\ stream = [pc |-> "idle"]
    /\ jpc = "filter" /\ jidx = 0
    /\ jresult = [kind |-> "none", exc |-> "", out |-> None]
    /\ gen = [pc |-> "idle", file |-> 0, start |-> 0, stop |-> 0,
              actual_chunksize |-> 0, k |-> 0]
    /\ lasthint = 0 /\ hinted = FALSE
    /\ retries = 0 /\ use_dataframes = FALSE
    /\ retry_count = 0 /\ out = Unbound /\ wpc = "idle" /\ wresult = NoResult
    /\ attempts = <<>> /\ warned = <<>>
    /\ FetchIdle
    /\ ExecIdle

FilterNext == JobFilter \/ JobPlan

SpecFilter == FilterInit /\ [][FilterNext]_vars

\* ------------------------------------------- FileMeta and the metadata cache
\* Two FileMeta objects and a cache: a FileMeta is made for any dataset, file
\* and tree, with user metadata or none; its metadata is fetched and stored
\* in the cache, and any FileMeta is populated from the cache.
CacheInit ==
    /\ WorkIdle /\ ExecIdle
    /\ fileset \in [1 .. 2 ->
                       {FileMeta(d, f, t, m) :
                           d \in Range(DatasetNames), f \in 1 .. MaxFiles,
                           t \in {TreeName, "Other"},
                           m \in {NoMetadata, [tag |-> 0]}}]
    /\ chunksize = 1 /\ align_clusters = FALSE /\ dynamic_chunksize = FALSE
    /\ gen = [pc |-> "idle", file |-> 0, start |-> 0, stop |-> 0,
              actual_chunksize |-> 0, k |-> 0]
    /\ emitted = <<>> /\ lasthint = 0 /\ hinted = FALSE
    /\ jinput = <<>>
    /\ disk = [f \in 1 .. MaxFiles |->
                  FileMeta("A", f, TreeName, [numentries |-> f, uuid |-> FileUuid(f)])]
    /\ metadata_cache = <<>> /\ maxchunks = NoMax
    /\ jexecutor = "none" /\ jpc = "cache" /\ jidx = 0 /\ fetched = <<>>
    /\ jresult = [kind |-> "none"]
    /\ jformat = "none"
    /\ written = <<>>
    /\ stream = [pc |-> "idle"]

\* "metadata_cache[item] = item.metadata" for the FileMeta that _get_metadata
\* returns for fileset[i]
CacheStore(i) ==
    /\ jpc = "cache"
    /\ metadata_cache' = CachePut(metadata_cache, fileset[i], _get_metadata(fileset[i]))
    /\ UNCHANGED <<planVars, workVars, execVars>>
    /\ UNCHANGED <<jinput, disk, maxchunks, jexecutor, jpc, jidx, fetched, jresult,
                   jformat, written, stream>>

\* fileset[i].maybe_populate(metadata_cache)
CacheLookup(i) ==
    /\ jpc = "cache"
    /\ fileset' = [fileset EXCEPT ![i] = maybe_populate(fileset[i], metadata_cache)]
    /\ UNCHANGED <<chunksize, align_clusters, dynamic_chunksize, gen, emitted,
                   lasthint, hinted>>
    /\ UNCHANGED <<workVars, execVars, jobVars>>

CacheNext ==
    \/ \E i \in 1 .. 2 : CacheStore(i)
    \/ \E i \in 1 .. 2 : CacheLookup(i)

SpecCache == CacheInit /\ [][CacheNext]_vars

\* --------------------------------------------------------------- job claims
\* C2: chunksize is the maximum number of entries processed at a time: every
\* WorkItem run_uproot_job plans, even-split or cluster-aligned, has
\* entrystop - entrystart <= chunksize.
C2_ChunksizeIsMaximum ==
    \A i \in 1 .. Len(emitted) : WorkItemLen(emitted[i]) <= chunksize

\* C5: the files of 250000 and 50000 entries under chunksize 100000 are
\* planned into exactly four WorkItems, [0,83334), [83334,166667),
\* [166667,250000) of the first file and [0,50000) of the second.
C5_FourWorkItems ==
    (ExampleJob /\ jpc \in {"dispatch", "postprocess", "returned", "raised"}) =>
        /\ Len(emitted) = 4
        /\ {<<emitted[i].filename, emitted[i].entrystart, emitted[i].entrystop>> :
               i \in 1 .. Len(emitted)}
           = {<<1, 0, 83334>>, <<1, 83334, 166667>>, <<1, 166667, 250000>>,
              <<2, 0, 50000>>}

NoFiles == \A d \in 1 .. Len(jinput) : jinput[d].files = <<>>

\* C8: run_uproot_job called with an empty file set (options and dataset
\* metadata it accepts) does not raise, and what it returns is the seed
\* accumulator, None.
C8_EmptyFileset ==
    (jformat = "root" /\ NoFiles /\ ~dynamic_chunksize /\ ~ReservedIn(jinput)) =>
        /\ jpc # "raised"
        /\ jpc = "returned" => jresult.out = None

\* The options ask for dynamic resizing together with cluster alignment or
\* with a maxchunks cap.
ConflictingOptions ==
    dynamic_chunksize /\ (align_clusters \/ maxchunks # NoMax)

\* C27: conflicting option combinations (align_clusters with
\* dynamic_chunksize; a maxchunks cap with dynamic_chunksize) are always
\* fatal in run_uproot_job: the call raises, and it does so before any
\* metadata fetch, any unit of work and any executor call.
C27_ConflictsFatal ==
    (jpc # "idle" /\ ConflictingOptions) =>
        /\ jpc \in {"start", "raised"}
        /\ fetched = <<>>
        /\ emitted = <<>>

\* Some dataset of the fileset argument has a reserved key in its metadata.
UsesReservedKey ==
    \E d \in 1 .. Len(jinput) :
        \E k \in _PROTECTED_NAMES : k \in DOMAIN jinput[d].metadata

\* C28: caller-supplied metadata that uses a reserved key, in whichever
\* dataset of the file set, is refused with ValueError while the file set is
\* normalized: no FileMeta is populated, no metadata fetched, no unit planned.
C28_ReservedKeysRejected ==
    UsesReservedKey =>
        /\ jpc \in {"start", "raised"}
        /\ jpc = "raised" => jresult.exc = "ValueError"
        /\ fileset = <<>>
        /\ fetched = <<>>
        /\ emitted = <<>>

\* The call raised for a reserved key in the metadata of the second dataset,
\* whose files come after a file of the first.
C28_Witness ==
    /\ jpc = "raised"
    /\ Len(jinput) = 2
    /\ jinput[1].files # <<>> /\ jinput[2].files # <<>>
    /\ jinput[1].metadata = NoMetadata
    /\ "clusters" \in DOMAIN jinput[2].metadata

\* C29: every Work Unit handed to an executor by run_uproot_job (maxchunks
\* set or not) or by run_parquet_job has entrystart < entrystop <= numentries
\* of its file, and its length is entrystop - entrystart.
C29_UnitRanges ==
    \A i \in 1 .. Len(emitted) :
        /\ emitted[i].entrystart < emitted[i].entrystop
        /\ emitted[i].entrystop <= NumEntries(disk[emitted[i].filename])
        /\ WorkItemLen(emitted[i]) = emitted[i].entrystop - emitted[i].entrystart

\* The file set as run_uproot_job plans from it when the metadata of every
\* file is known: normalized, populated with what the file holds, reversed.
KnownFileset ==
    Reverse([i \in 1 .. Len(_normalize_fileset(jinput)) |->
                [_normalize_fileset(jinput)[i] EXCEPT
                    !.metadata = _get_metadata(_normalize_fileset(jinput)[i])]])

\* C30: the metadata cache is not needed for correctness: run_uproot_job
\* plans the same Work Units whether the cache starts empty or holds
\* accurate entries for the files, because every file the cache does not
\* have is fetched (also with maxchunks set and skipbadfiles true).
C30_CacheNotRequired ==
    (jformat = "root" /\ ~dynamic_chunksize /\ ~HasMetadata(jinput)
        /\ jpc \in {"dispatch", "postprocess", "returned"}) =>
        emitted = _chunk_generator(KnownFileset)

\* The units planned for dataset d, in the order planned.
UnitsOfDataset(d) == SelectSeq(emitted, LAMBDA u : u.dataset = d)

\* All the chunks of the files of dataset d that passed _filter_badfiles, in
\* planning order (the reversed file set).
ChunksOfDataset(d) == AllChunks(SelectSeq(fileset, LAMBDA fm : fm.dataset = d))

Planned == jformat = "root" /\ jpc \in {"dispatch", "postprocess", "returned"}

\* C31: with maxchunks set, the units handed to the executor for each dataset
\* are min(maxchunks, number of chunks of the dataset's usable files) many,
\* and they are the first ones of the dataset's chunks in planning order.
C31_CappedPrefix ==
    (Planned /\ maxchunks # NoMax) =>
        \A d \in Range(DatasetNames) :
            /\ Len(UnitsOfDataset(d)) <= maxchunks
            /\ Len(UnitsOfDataset(d)) = Min(maxchunks, Len(ChunksOfDataset(d)))
            /\ UnitsOfDataset(d)
                   = SubSeq(ChunksOfDataset(d), 1, Len(UnitsOfDataset(d)))

\* C31 witness: a dataset of two files has more chunks than maxchunks; all
\* the chunks of the file planned first and some of the other's were kept.
C31_Witness ==
    /\ Planned /\ maxchunks >= 1
    /\ \E d \in Range(DatasetNames) :
          /\ Len(ChunksOfDataset(d)) > maxchunks
          /\ Len(UnitsOfDataset(d)) = maxchunks
          /\ UnitsOfDataset(d)[1].filename # Last(UnitsOfDataset(d)).filename
          /\ Last(ChunksOfDataset(d)).filename = Last(UnitsOfDataset(d)).filename

\* The dataset that lists file f in the fileset argument.
DatasetOf(f) ==
    jinput[CHOOSE d \in 1 .. Len(jinput) : f \in Range(jinput[d].files)].dataset

\* File f as a FileMeta populated with what the file holds.
KnownFile(f) == CHOOSE fm \in Range(KnownFileset) : fm.filename = f

\* The number of chunks that the files of the list which belong to dataset d
\* provide.
RECURSIVE ChunksKnown(_, _)
ChunksKnown(files, d) ==
    IF files = <<>> THEN 0
    ELSE (IF DatasetOf(Head(files)) = d THEN Len(FileChunks(KnownFile(Head(files))))
          ELSE 0)
         + ChunksKnown(Tail(files), d)

\* C32: with maxchunks set (one chunk or more) the fetch pass stops once
\* enough chunks are known per dataset: when a file's metadata is fetched,
\* the files fetched before it for the same dataset provide fewer than
\* maxchunks chunks.
C32_FetchStops ==
    (jformat = "root" /\ maxchunks >= 1) =>
        \A j \in 1 .. Len(fetched) :
            ChunksKnown(SubSeq(fetched, 1, j - 1), DatasetOf(fetched[j])) < maxchunks

\* Two FileMeta name the same file and tree.
SameFileAndTree(a, b) == a.filename = b.filename /\ a.treename = b.treename

\* C33: the identity of a FileMeta ignores its dataset: two FileMeta of the
\* same (filename, treename) are equal and have the same hash whatever their
\* datasets, and what the cache holds under one is what maybe_populate gives
\* the other; two FileMeta that differ in filename or treename are not equal.
C33_IdentityIgnoresDataset ==
    \A i, j \in 1 .. Len(fileset) :
        /\ SameFileAndTree(fileset[i], fileset[j]) =>
               /\ __eq__(fileset[i], fileset[j])
               /\ __hash__(fileset[i]) = __hash__(fileset[j])
        /\ ~SameFileAndTree(fileset[i], fileset[j]) => ~__eq__(fileset[i], fileset[j])
        /\ \A e \in 1 .. Len(metadata_cache) :
               IF SameFileAndTree(metadata_cache[e].key, fileset[j])
               THEN maybe_populate(fileset[j], metadata_cache).metadata
                        = metadata_cache[e].value
               ELSE Len(metadata_cache) = 1 =>
                        maybe_populate(fileset[j], metadata_cache) = fileset[j]

\* C33 witness: the metadata fetched for a FileMeta of one dataset and stored
\* under it populated the FileMeta of the same file and tree in the other
\* dataset, user metadata of the first included.
C33_Witness ==
    /\ jpc = "cache" /\ Len(metadata_cache) = 1
    /\ metadata_cache[1].key.dataset = fileset[1].dataset
    /\ fileset[1].dataset # fileset[2].dataset
    /\ SameFileAndTree(fileset[1], fileset[2])
    /\ ~populated(fileset[1], FALSE)
    /\ populated(fileset[2], FALSE)
    /\ fileset[2].metadata = metadata_cache[1].value
    /\ "tag" \in DOMAIN fileset[2].metadata

\* C34 as stated: every write into the metadata cache comes after all the
\* fetches of the call and before any unit is planned, with maxchunks set or
\* not.
C34_Original ==
    jformat = "root" =>
        \A w \in 1 .. Len(written) :
            written[w].fetches = Len(fetched) /\ written[w].planned = 0

\* What the log of the writes looks like: one write per fetch and no unit
\* planned before it; with maxchunks None every write saw all the fetches,
\* with maxchunks set write w follows fetch w and comes before fetch w + 1.
C34_WriteLog ==
    /\ Len(written) = Len(fetched)
    /\ \A w \in 1 .. Len(written) :
          /\ written[w].planned = 0
          /\ IF maxchunks = NoMax THEN written[w].fetches = Len(fetched)
             ELSE written[w].fetches = w /\ written[w].file = fetched[w]

\* C34 amended: the cache is written only during the fetch pass, before any
\* unit is planned; with maxchunks None after all the fetches are done, with
\* maxchunks set right after the fetch of the file written, before the next.
C34_WritesBeforePlanning ==
    [][/\ written' # written =>
             jpc = "preprocess" /\ emitted = <<>> /\ emitted' = <<>>
       /\ metadata_cache' # metadata_cache => written' # written
       /\ jformat = "root" => C34_WriteLog']_vars

\* C34 witness: with maxchunks set two files were fetched and written in
\* turn, then units were planned; the first write saw one fetch only.
C34_Witness ==
    /\ Planned /\ maxchunks # NoMax /\ emitted # <<>>
    /\ Len(written) = 2 /\ written[1].fetches = 1 /\ written[2].fetches = 2

\* Some FileMeta of the file set is not populated (not cluster-populated
\* when alignment is requested).
SomeUnpopulated == \E i \in 1 .. Len(fileset) : ~populated(fileset[i], align_clusters)

\* Every unit planned comes from a populated FileMeta of the file set.
UnitsFromPopulated ==
    \A u \in 1 .. Len(emitted) :
        \E i \in 1 .. Len(fileset) :
            /\ populated(fileset[i], align_clusters)
            /\ fileset[i].filename = emitted[u].filename
            /\ fileset[i].dataset = emitted[u].dataset
            /\ fileset[i].metadata["uuid"] = emitted[u].fileuuid

\* C35: a FileMeta still unpopulated when the fetch pass is over is dropped
\* from the file set when skipbadfiles is true (the populated ones all stay)
\* and makes the call raise RuntimeError, with nothing planned, when
\* skipbadfiles is false; no unit is ever planned from an unpopulated
\* FileMeta.
C35_UnpopulatedFiltered ==
    /\ [](jformat = "root" => UnitsFromPopulated)
    /\ [][(jpc = "filter" /\ SomeUnpopulated) =>
             IF skipbadfiles
             THEN /\ jpc' = "plan"
                  /\ Range(fileset') = {fm \in Range(fileset) :
                                            populated(fm, align_clusters)}
                  /\ Len(fileset') = Cardinality(Range(fileset'))
             ELSE /\ jpc' = "raised" /\ jresult'.exc = "RuntimeError"
                  /\ emitted' = <<>>]_vars

\* C35 witness: skipbadfiles is false, the file set handed to
\* _filter_badfiles had a populated FileMeta and one without clusters while
\* alignment is requested, and the call raised without planning a unit.
C35_Witness ==
    /\ jpc = "raised" /\ ~skipbadfiles /\ align_clusters /\ emitted = <<>>
    /\ Len(fileset) = 2
    /\ populated(fileset[1], TRUE)
    /\ populated(fileset[2], FALSE) /\ ~populated(fileset[2], TRUE)

\* C36: every WorkItem from FileMeta.chunks carries as usermeta exactly the
\* entries of the FileMeta's metadata whose keys are not reserved: no
\* reserved key, every other key with its value, nothing else.
C36_UserMetaNonReserved ==
    jformat = "root" =>
        \A u \in 1 .. Len(emitted) : \A i \in 1 .. Len(fileset) :
            (fileset[i].filename = emitted[u].filename
                /\ fileset[i].dataset = emitted[u].dataset) =>
                /\ (DOMAIN emitted[u].usermeta) \cap _PROTECTED_NAMES = {}
                /\ DOMAIN emitted[u].usermeta
                       = (DOMAIN fileset[i].metadata) \ _PROTECTED_NAMES
                /\ \A k \in DOMAIN emitted[u].usermeta :
                       emitted[u].usermeta[k] = fileset[i].metadata[k]

\* C36 witness: a unit planned from a FileMeta whose metadata holds the
\* caller's key next to numentries and uuid carries the caller's key only.
C36_Witness ==
    /\ Planned /\ emitted # <<>>
    /\ DOMAIN emitted[1].usermeta = {"tag"}
    /\ \E i \in 1 .. Len(fileset) :
          /\ fileset[i].filename = emitted[1].filename
          /\ DOMAIN fileset[i].metadata = {"tag", "numentries", "uuid"}

\* The metadata section the caller gave for dataset d in this call.
SuppliedMetadata(d) ==
    jinput[CHOOSE i \in 1 .. Len(jinput) : jinput[i].dataset = d].metadata

\* C38: every unit planned by run_uproot_job has as usermeta the metadata the
\* caller supplied in this call for the unit's own dataset, also when the
\* same file and tree are listed under two datasets with different metadata
\* and when the cache holds an entry for the file from an earlier call.
C38_OwnDatasetMetadata ==
    jformat = "root" =>
        \A u \in 1 .. Len(emitted) :
            emitted[u].usermeta = SuppliedMetadata(emitted[u].dataset)

\* ------------------------------------------------------- servicex DataSource
\* DataSource.stream_result_file_urls and stream_result_files, one and the same
\* but for the stream they ask of a dataset: the frame of the async generator.
\* sizes[d] is the number of files the stream of dataset d gives; started
\* lists the datasets whose stream was asked for, in order; exhausted lists
\* the datasets whose stream ended, each with the number of streams started
\* by then.
StreamInit ==
    /\ PlanIdle /\ WorkIdle /\ ExecIdle
    /\ jinput = <<>> /\ disk = <<>> /\ metadata_cache = <<>> /\ maxchunks = 0
    /\ jexecutor = "none" /\ jpc = "idle" /\ jidx = 0 /\ fetched = <<>>
    /\ jresult = [kind |-> "none"]
    /\ jformat = "none"
    /\ written = <<>>
    /\ \E nd \in 0 .. MaxDatasets :
          \E sizes \in [1 .. nd -> 0 .. MaxFiles] :
              \E method \in {"stream_result_file_urls", "stream_result_files"} :
                  \E datatype \in {"parquet", "root", "csv"} :
                      stream = [pc |-> "created", method |-> method,
                                datatype |-> datatype, sizes |-> sizes,
                                dataset |-> 0, left |-> 0, yielded |-> 0,
                                started |-> <<>>, exhausted |-> <<>>]

StreamUnchanged ==
    /\ UNCHANGED <<planVars, workVars, execVars>>
    /\ UNCHANGED <<jinput, disk, metadata_cache, maxchunks, jexecutor, jpc, jidx,
                   fetched, jresult, jformat, written>>

\* "query_qastle = await self.query.value_async()", then the for loop is
\* entered
StreamQuery ==
    /\ stream.pc = "created"
    /\ stream' = [stream EXCEPT !.pc = "loop", !.dataset = 1]
    /\ StreamUnchanged

\* "for dataset in self.datasets": the loop takes the next dataset and asks
\* for its stream, raises for a datatype it does not know, or is over.
StreamOpen ==
    /\ stream.pc = "loop"
    /\ stream' =
          IF stream.dataset > Len(stream.sizes) THEN [stream EXCEPT !.pc = "exhausted"]
          ELSE IF stream.datatype \notin {"parquet", "root"}
          THEN [stream EXCEPT !.pc = "raised"]
          ELSE [stream EXCEPT !.pc = "streaming",
                              !.left = stream.sizes[stream.dataset],
                              !.started = Append(@, stream.dataset)]
    /\ StreamUnchanged

\* "async for file in dataset.get_data_..._stream(query_qastle): yield file"
StreamYield ==
    /\ stream.pc = "streaming"
    /\ stream.left > 0
    /\ stream' = [stream EXCEPT !.left = @ - 1, !.yielded = @ + 1]
    /\ StreamUnchanged

\* The stream of the dataset is exhausted: the async for ends and the for
\* loop goes on to the next dataset.
StreamEnd ==
    /\ stream.pc = "streaming"
    /\ stream.left = 0
    /\ stream' = [stream EXCEPT
                     !.pc = "loop",
                     !.dataset = @ + 1,
                     !.exhausted = Append(@, [dataset |-> stream.dataset,
                                              started |-> Len(stream.started)])]
    /\ StreamUnchanged

StreamNext == StreamQuery \/ StreamOpen \/ StreamYield \/ StreamEnd

SpecStream == StreamInit /\ [][StreamNext]_vars

\* C37: stream_result_files and stream_result_file_urls launch all datasets
\* at once: when the stream of a dataset is exhausted, the stream of every
\* dataset of self.datasets has been started.
C37_AllLaunchedAtOnce ==
    stream.pc # "idle" =>
        \A e \in 1 .. Len(stream.exhausted) :
            stream.exhausted[e].started = Len(stream.sizes)


\* ---------------------------------------------------------------------------
\* C40: with tailtimeout set and the pool given as a class, once the wait of
\* _futures_handler has timed out (a tail stall) futures_executor eventually
\* returns, even if an operation that was submitted never completes.
TailStalled == \E i \in 1 .. Len(hlog) : hlog[i] = "timeout"

C40_ReturnsAfterTailStall ==
    (xargs.executor = "futures" /\ xargs.tailtimeout /\ xargs.pool = "class")
        => [](TailStalled => <>(xpc = "returned"))

====
